---- MODULE Spec2Model ----
(***************************************************************************)
(* A model of the Fintech-Forecaster front end: the DataClient             *)
(* (lib/mongodb.ts), the chart components (CandlestickChart,               *)
(* EnhancedCandlestickChart), MonitoringDashboard and App.                 *)
(*                                                                         *)
(* JavaScript values are tagged records [t |-> tag, v |-> payload]; the    *)
(* tag decides the type of the payload.  Prices are integers; a computed   *)
(* scale is kept in hundredths, so that the padding factors 0.1 and 0.05   *)
(* are exact.                                                              *)
(***************************************************************************)
EXTENDS Integers, Sequences, FiniteSets, TLC

VARIABLES
  \* DataClient: the call made and what its promise settled to
  call, outcome,
  \* a chart component: its props, the scale its useMemo computed, how the
  \* render ended, and what it laid out
  component, data, forecasts, scale, rendered, layout,
  \* MonitoringDashboard: its useState slices
  performanceData, predictionErrors, alerts, metricsHistory,
  selectedSymbol, loading, timeRange, error,
  \* MonitoringDashboard: the loadMonitoringData in flight, the
  \* handleResolveAlert calls in flight, what the four fetches of the last
  \* load settled to (pending while it is in flight), and how many loads and
  \* resolves were started
  monLoad, resolving, lastLoad, loadsStarted, resolvesStarted,
  \* App: its useState slices (appLoading, appForecasts and
  \* appPredictionErrors are App's loading, forecasts and predictionErrors)
  instruments, models, selectedInstrument, selectedModel, historicalData,
  appForecasts, appPredictionErrors, modelPerformance, appLoading,
  generatingForecast, loadingErrors,
  \* App: the requests in flight, the setTimeout callbacks not yet run (in
  \* the order they were set), and how many instrument selections and
  \* forecast clicks there were, and how many requests were started
  requests, timers, selections, forecastClicks, requestsStarted,
  \* MonitoringDashboard: what a render computed from predictionErrors
  \* (undefined before the render)
  errorStats, modelMetrics, accuracyChart,
  \* PortfolioDashboard: its useState slices (portfolioPerformance and
  \* portfolioLoading are its performance and loading)
  portfolio, portfolioPerformance, portfolioLoading, trading, tradeSymbol,
  tradeQuantity, tradingSignals,
  \* PortfolioDashboard: whether the effect's loadPortfolioData is in flight,
  \* the handleAutoTrade / handleManualTrade runs in flight, what the last
  \* run of a trade handler did, and how many runs there were
  portfolioLoad, tradeRuns, lastTrade, tradesStarted

clientVars == <<call, outcome>>

chartVars == <<component, data, forecasts, scale, rendered, layout>>

monSlices == <<performanceData, predictionErrors, alerts, metricsHistory>>

monVars ==
  <<performanceData, predictionErrors, alerts, metricsHistory,
    selectedSymbol, loading, timeRange, error,
    monLoad, resolving, lastLoad, loadsStarted, resolvesStarted>>

appSlices ==
  <<instruments, models, selectedInstrument, selectedModel, historicalData,
    appForecasts, appPredictionErrors, modelPerformance, appLoading,
    generatingForecast, loadingErrors>>

appVars ==
  <<appSlices, requests, timers, selections, forecastClicks, requestsStarted>>

renderVars == <<errorStats, modelMetrics, accuracyChart>>

portfolioVars ==
  <<portfolio, portfolioPerformance, portfolioLoading, trading, tradeSymbol,
    tradeQuantity, tradingSignals, portfolioLoad, tradeRuns, lastTrade,
    tradesStarted>>

vars == <<clientVars, chartVars, monVars, appVars, renderVars, portfolioVars>>

----------------------------------------------------------------------------
(* Bounds of the model.                                                    *)

\* longest JSON array a response carries
MaxPayload == 1

\* longest historical series and forecast list a chart is given
MaxData == 2

MaxForecasts == 1

\* loadMonitoringData and handleResolveAlert calls started in one run
MaxLoads == 2

MaxResolves == 2

\* instrument selections and Generate Forecast clicks of the user in one run
MaxSelections == 1

MaxForecastClicks == 2

\* requests App starts in one run, the two of loadInitialData apart
MaxRequests == 7

----------------------------------------------------------------------------
(* JavaScript values.                                                      *)

Num(n) == [t |-> "number", v |-> n]

Str(s) == [t |-> "string", v |-> s]

Bool(b) == [t |-> "boolean", v |-> b]

Undefined == [t |-> "undefined", v |-> 0]

Null == [t |-> "null", v |-> 0]

NaN == [t |-> "NaN", v |-> 0]

Obj(fields) == [t |-> "object", v |-> fields]

Arr(items) == [t |-> "array", v |-> items]

\* the body of a response whose res.json() rejects (not JSON)
Invalid == [t |-> "invalid", v |-> 0]

IsNum(x) == x.t = "number"

\* ToBoolean
Truthy(x) ==
  CASE x.t = "number" -> x.v # 0
    [] x.t = "boolean" -> x.v
    [] x.t = "string" -> x.v # ""
    [] x.t \in {"undefined", "null", "NaN"} -> FALSE
    [] OTHER -> TRUE

\* a || b
Or(a, b) == IF Truthy(a) THEN a ELSE b

\* ToNumber, on the values the model holds
ToNumber(x) ==
  CASE x.t = "number" -> x
    [] x.t = "null" -> Num(0)
    [] OTHER -> NaN

\* a - b
Minus(a, b) ==
  LET x == ToNumber(a)
      y == ToNumber(b)
  IN IF IsNum(x) /\ IsNum(y) THEN Num(x.v - y.v) ELSE NaN

\* Array.isArray
IsArray(x) == x.t = "array"

SeqsUpTo(S, n) == UNION {[1..k -> S] : k \in 0..n}

(* A computed JavaScript number: a quotient of integers n / d with d > 0,  *)
(* kept exact, NaN, or an infinity.                                        *)

Rat(n, d) == [t |-> "rational", n |-> n, d |-> d]

Abs(n) == IF n < 0 THEN -n ELSE n

NotANumber == [t |-> "NaN", n |-> 0, d |-> 0]

RECURSIVE GCD(_, _)
GCD(a, b) == IF b = 0 THEN a ELSE GCD(b, a % b)

\* the quotient n / d (d > 0) in lowest terms
Quotient(n, d) ==
  LET g == GCD(Abs(n), d) IN Rat(n \div g, d \div g)

\* Infinity (sign 1) and -Infinity (sign -1)
Infinite(sign) == [t |-> "infinity", n |-> sign, d |-> 0]

IsFinite(a) == a.t = "rational"

\* a > b as JavaScript compares numbers: false whenever NaN is involved
Greater(a, b) ==
  CASE a.t = "NaN" \/ b.t = "NaN" -> FALSE
    [] a.t = "infinity" /\ b.t = "infinity" -> a.n > b.n
    [] a.t = "infinity" -> a.n > 0
    [] b.t = "infinity" -> b.n < 0
    [] OTHER -> a.n * b.d > b.n * a.d

----------------------------------------------------------------------------
(* DataClient: lib/mongodb.ts.  A response is what fetch gives a call:     *)
(* net = "error" when fetch itself rejects, otherwise the status (res.ok)  *)
(* and the body.                                                           *)

Fulfilled(x) == [status |-> "fulfilled", value |-> x]

Rejected(msg) == [status |-> "rejected", value |-> [t |-> "Error", v |-> msg]]

Pending == [status |-> "pending", value |-> Undefined]

\* fetch rejects with a TypeError
NetworkError == Rejected("TypeError: Failed to fetch")

\* res.json() rejects with a SyntaxError
JsonError == Rejected("SyntaxError: Unexpected token")

\* if (!res.ok) throw new Error(msg); return res.json();
StrictJson(res, msg) ==
  IF res.net = "error" THEN NetworkError
  ELSE IF ~res.ok THEN Rejected(msg)
  ELSE IF res.body = Invalid THEN JsonError
  ELSE Fulfilled(res.body)

\* if (!res.ok) throw new Error(msg); const data = await res.json();
\* return Array.isArray(data) ? data : [];
StrictArray(res, msg) ==
  IF res.net = "error" THEN NetworkError
  ELSE IF ~res.ok THEN Rejected(msg)
  ELSE IF res.body = Invalid THEN JsonError
  ELSE Fulfilled(IF IsArray(res.body) THEN res.body ELSE Arr(<<>>))

createPortfolio(res) == StrictJson(res, "Failed to create portfolio")

getPortfolio(res) == StrictJson(res, "Failed to fetch portfolio")

executeTrade(res) == StrictJson(res, "Failed to execute trade")

getPortfolioPerformance(res) == StrictJson(res, "Failed to fetch portfolio performance")

fetchInstruments(res) == StrictArray(res, "Failed to fetch instruments")

fetchHistoricalData(res) == StrictArray(res, "Failed to fetch historical data")

fetchModels(res) == StrictJson(res, "Failed to fetch models")

generateForecast(res) == StrictArray(res, "Failed to generate forecast")

retrainModel(res) == StrictJson(res, "Failed to retrain model")

incrementalModelUpdate(res) == StrictJson(res, "Failed to perform incremental update")

getModelVersions(res) == StrictJson(res, "Failed to fetch model versions")

adaptiveForecast(res) == StrictJson(res, "Failed to generate adaptive forecast")

\* One element of the error-history payload, as the map callback reads it.
\* A field the payload does not carry reads as undefined.
FormatError(e, symbol) ==
  Obj([timestamp  |-> e.v.timestamp,
       predicted  |-> Or(e.v.predicted, e.v.predicted_price),
       actual     |-> Or(e.v.actual, e.v.actual_price),
       error      |-> Or(e.v.error, Minus(e.v.actual, e.v.predicted)),
       symbol     |-> Or(e.v.symbol, Str(symbol)),
       model_type |-> e.v.model_type])

\* Reading a property of null or undefined throws a TypeError.
ThrowsOnRead(e) == e.t \in {"null", "undefined"}

\* getPredictionErrors without its try/catch: a failed fetch rejects.
getPredictionErrors_NoCatch(symbol, res) ==
  IF res.net = "error" THEN NetworkError
  ELSE IF ~res.ok THEN Fulfilled(Arr(<<>>))
  ELSE IF res.body = Invalid THEN JsonError
  ELSE IF ~IsArray(res.body) THEN Fulfilled(Arr(<<>>))
  ELSE IF \E i \in 1..Len(res.body.v) : ThrowsOnRead(res.body.v[i])
       THEN Rejected("TypeError: Cannot read properties of null")
  ELSE Fulfilled(Arr([i \in 1..Len(res.body.v) |-> FormatError(res.body.v[i], symbol)]))

getPredictionErrors(symbol, res) ==
  IF res.net = "error" THEN Fulfilled(Arr(<<>>))
  ELSE IF ~res.ok THEN Fulfilled(Arr(<<>>))
  ELSE IF res.body = Invalid THEN Fulfilled(Arr(<<>>))
  ELSE IF ~IsArray(res.body) THEN Fulfilled(Arr(<<>>))
  ELSE IF \E i \in 1..Len(res.body.v) : ThrowsOnRead(res.body.v[i])
       THEN Fulfilled(Arr(<<>>))
  ELSE Fulfilled(Arr([i \in 1..Len(res.body.v) |-> FormatError(res.body.v[i], symbol)]))

getModelPerformance(res) == StrictJson(res, "Failed to fetch model performance")

getPerformanceAlerts(res) == StrictArray(res, "Failed to fetch performance alerts")

resolveAlert(res) == StrictJson(res, "Failed to resolve alert")

getMetricsHistory(res) == StrictArray(res, "Failed to fetch metrics history")

getModelPerformanceHistory(res) == StrictJson(res, "Failed to fetch model performance history")

healthCheck(res) ==
  IF res.net = "error" THEN Fulfilled(Bool(FALSE))
  ELSE Fulfilled(Bool(res.ok))

\* The exported functions of lib/mongodb.ts.
ClientFunctions ==
  {"createPortfolio", "getPortfolio", "executeTrade", "getPortfolioPerformance",
   "fetchInstruments", "fetchHistoricalData", "fetchModels", "generateForecast",
   "retrainModel", "incrementalModelUpdate", "getModelVersions", "adaptiveForecast",
   "getPredictionErrors", "getModelPerformance", "getPerformanceAlerts",
   "resolveAlert", "getMetricsHistory", "getModelPerformanceHistory", "healthCheck"}

\* The functions declared to return a collection (Promise<T[]>).
CollectionFunctions ==
  {"fetchInstruments", "fetchHistoricalData", "fetchModels", "generateForecast",
   "getModelVersions", "getPredictionErrors", "getPerformanceAlerts",
   "getMetricsHistory"}

\* The two calls that swallow failures.
SoftFunctions == {"getPredictionErrors", "healthCheck"}

Invoke(fn, symbol, res) ==
  CASE fn = "createPortfolio" -> createPortfolio(res)
    [] fn = "getPortfolio" -> getPortfolio(res)
    [] fn = "executeTrade" -> executeTrade(res)
    [] fn = "getPortfolioPerformance" -> getPortfolioPerformance(res)
    [] fn = "fetchInstruments" -> fetchInstruments(res)
    [] fn = "fetchHistoricalData" -> fetchHistoricalData(res)
    [] fn = "fetchModels" -> fetchModels(res)
    [] fn = "generateForecast" -> generateForecast(res)
    [] fn = "retrainModel" -> retrainModel(res)
    [] fn = "incrementalModelUpdate" -> incrementalModelUpdate(res)
    [] fn = "getModelVersions" -> getModelVersions(res)
    [] fn = "adaptiveForecast" -> adaptiveForecast(res)
    [] fn = "getPredictionErrors" -> getPredictionErrors(symbol, res)
    [] fn = "getModelPerformance" -> getModelPerformance(res)
    [] fn = "getPerformanceAlerts" -> getPerformanceAlerts(res)
    [] fn = "resolveAlert" -> resolveAlert(res)
    [] fn = "getMetricsHistory" -> getMetricsHistory(res)
    [] fn = "getModelPerformanceHistory" -> getModelPerformanceHistory(res)
    [] fn = "healthCheck" -> healthCheck(res)

(* The responses the calls are tried on. *)

\* An element of the error-history payload: an object naming its values
\* predicted / actual or predicted_price / actual_price, with or without a
\* pre-computed error.
RawErrorPoint(err, act, pred, actPrice, predPrice) ==
  Obj([timestamp |-> Str("2024-01-01"), error |-> err,
       actual |-> act, predicted |-> pred,
       actual_price |-> actPrice, predicted_price |-> predPrice,
       symbol |-> Undefined, model_type |-> Str("arima")])

SuppliedErrors == {Undefined, Num(0), Num(2)}

RawErrorPoints ==
  {RawErrorPoint(err, act, pred, Undefined, Undefined) :
     err \in SuppliedErrors,
     act \in {Undefined, Num(0), Num(5)},
     pred \in {Undefined, Num(0), Num(3)}}
  \cup {RawErrorPoint(err, Undefined, Undefined, Num(5), Num(4)) : err \in SuppliedErrors}

OpaqueObject == Obj([id |-> "payload"])

OpaqueItem == Obj([id |-> "item"])

ErrorBodies ==
  {Invalid, Null, OpaqueObject}
  \cup {Arr(items) : items \in SeqsUpTo(RawErrorPoints \cup {Null}, MaxPayload)}

CoarseBodies ==
  {Invalid, Null, OpaqueObject}
  \cup {Arr(items) : items \in SeqsUpTo({OpaqueItem}, MaxPayload)}

ResponsesOver(bodies) ==
  {[net |-> "error", ok |-> FALSE, body |-> Invalid]}
  \cup {[net |-> "ok", ok |-> ok, body |-> b] : ok \in BOOLEAN, b \in bodies}

\* the same, with one body for the non-success status (no caller reads it)
AnswersOver(bodies) ==
  {[net |-> "error", ok |-> FALSE, body |-> Invalid],
   [net |-> "ok", ok |-> FALSE, body |-> Null]}
  \cup {[net |-> "ok", ok |-> TRUE, body |-> b] : b \in bodies}

Responses(fn) ==
  IF fn = "getPredictionErrors" THEN ResponsesOver(ErrorBodies)
  ELSE ResponsesOver(CoarseBodies)

NoCall == [fn |-> "none", symbol |-> "", res |-> [net |-> "error", ok |-> FALSE, body |-> Invalid]]

ClientIdle ==
  /\ call = NoCall
  /\ outcome = Pending

\* nothing is laid out: no candle, no forecast marker, no stats cards
NoLayout == [candles |-> <<>>, markers |-> <<>>, stats |-> Null]

ChartIdle ==
  /\ component = "none"
  /\ data = <<>>
  /\ forecasts = <<>>
  /\ scale = [minPrice |-> 0, maxPrice |-> 0, priceRange |-> 0]
  /\ rendered = "none"
  /\ layout = NoLayout

EmptyObject == Obj([keys |-> {}])

NoLoad == [active |-> FALSE, symbol |-> ""]

NoResults ==
  [performance |-> Pending, errors |-> Pending, alerts |-> Pending,
   metrics |-> Pending, promise |-> "pending", failed |-> {}]

MonitoringIdle ==
  /\ performanceData = EmptyObject
  /\ predictionErrors = Arr(<<>>)
  /\ alerts = Arr(<<>>)
  /\ metricsHistory = Arr(<<>>)
  /\ selectedSymbol = "AAPL"
  /\ loading = TRUE
  /\ timeRange = "30d"
  /\ error = Null
  /\ monLoad = NoLoad
  /\ resolving = {}
  /\ lastLoad = NoResults
  /\ loadsStarted = 0
  /\ resolvesStarted = 0

\* What a list slice of App holds: where its items come from ("initial",
\* "api" or "mock"), the symbol of the load that produced them, and how many
\* there are.
ListOf(source, symbol, length) ==
  [source |-> source, symbol |-> symbol, length |-> length]

\* useState([]) of historicalData, forecasts and predictionErrors
NoList == ListOf("initial", "", 0)

\* useState({}) of modelPerformance
NoPerformance == [source |-> "initial", symbol |-> ""]

\* useState(null) of selectedInstrument and selectedModel
NoSelection == ""

\* the App slices as useState initialises them, except loading
AppSlicesInitial ==
  /\ instruments = <<>>
  /\ models = <<>>
  /\ selectedInstrument = NoSelection
  /\ selectedModel = NoSelection
  /\ historicalData = NoList
  /\ appForecasts = NoList
  /\ appPredictionErrors = NoList
  /\ modelPerformance = NoPerformance
  /\ generatingForecast = FALSE
  /\ loadingErrors = FALSE

\* App is not mounted
AppIdle ==
  /\ AppSlicesInitial
  /\ appLoading = TRUE
  /\ requests = {}
  /\ timers = <<>>
  /\ requestsStarted = 0
  /\ selections = 0
  /\ forecastClicks = 0

\* no statistics were computed
RenderIdle ==
  /\ errorStats = Undefined
  /\ modelMetrics = Undefined
  /\ accuracyChart = Undefined

\* what no run of a trade handler has left
NoTrade ==
  [by |-> "none", symbol |-> "", action |-> "", predictedPrice |-> 0,
   quantity |-> NotANumber, issued |-> FALSE]

\* PortfolioDashboard is not mounted
PortfolioIdle ==
  /\ portfolio = Null
  /\ portfolioPerformance = Null
  /\ portfolioLoading = TRUE
  /\ trading = FALSE
  /\ tradeSymbol = ""
  /\ tradeQuantity = ""
  /\ tradingSignals = <<>>
  /\ portfolioLoad = FALSE
  /\ tradeRuns = {}
  /\ lastTrade = NoTrade
  /\ tradesStarted = 0

ClientInit ==
  /\ ClientIdle
  /\ ChartIdle
  /\ MonitoringIdle
  /\ AppIdle
  /\ RenderIdle
  /\ PortfolioIdle

\* One call of a DataClient function, run to its settlement.
ClientCall(fn) ==
  \E res \in Responses(fn) :
    /\ call' = [fn |-> fn, symbol |-> "AAPL", res |-> res]
    /\ outcome' = Invoke(fn, "AAPL", res)
    /\ UNCHANGED <<chartVars, monVars, appVars, renderVars, portfolioVars>>

ClientNext == \E fn \in ClientFunctions : ClientCall(fn)

SpecClient == ClientInit /\ [][ClientNext]_vars

----------------------------------------------------------------------------
(* Claims about the DataClient.                                            *)

HttpFailure == call.res.net = "ok" /\ ~call.res.ok

\* C4: the two soft calls never reject -- getPredictionErrors resolves to []
\* and healthCheck to false on a network error or a non-success status --
\* while every other DataClient function rejects with an Error on a
\* non-success status.
C4_SoftCallsNeverReject ==
  /\ call.fn = "getPredictionErrors" =>
       /\ outcome.status = "fulfilled"
       /\ (call.res.net = "error" \/ ~call.res.ok) => outcome.value = Arr(<<>>)
  /\ call.fn = "healthCheck" =>
       /\ outcome.status = "fulfilled"
       /\ (call.res.net = "error" \/ ~call.res.ok) => outcome.value = Bool(FALSE)
  /\ (call.fn \in ClientFunctions \ SoftFunctions /\ HttpFailure) =>
       /\ outcome.status = "rejected"
       /\ outcome.value.t = "Error"

C4_Witness ==
  /\ call.fn = "getPredictionErrors"
  /\ call.res.net = "error"
  /\ outcome.status = "fulfilled"

\* C5: every DataClient function whose result type is a collection resolves
\* to an array whenever the HTTP status is a success, and to the empty array
\* when the JSON payload is not an array.
C5_CollectionsResolveToArray ==
  (call.fn \in CollectionFunctions /\ call.res.net = "ok" /\ call.res.ok
     /\ call.res.body # Invalid) =>
    /\ outcome.status = "fulfilled"
    /\ IsArray(outcome.value)
    /\ ~IsArray(call.res.body) => outcome.value = Arr(<<>>)

\* C6: for every element of an array payload, getPredictionErrors returns a
\* point whose error is the payload's error when one is supplied (0 included)
\* and otherwise actual - predicted of the returned point.
C6_ErrorFieldCanonical ==
  (call.fn = "getPredictionErrors" /\ call.res.net = "ok" /\ call.res.ok
     /\ IsArray(call.res.body)
     /\ \A i \in 1..Len(call.res.body.v) : ~ThrowsOnRead(call.res.body.v[i])) =>
    /\ outcome.status = "fulfilled"
    /\ IsArray(outcome.value)
    /\ Len(outcome.value.v) = Len(call.res.body.v)
    /\ \A i \in 1..Len(call.res.body.v) :
         LET raw == call.res.body.v[i].v
             out == outcome.value.v[i].v
         IN IF raw.error # Undefined
            THEN out.error = raw.error
            ELSE out.error = Minus(out.actual, out.predicted)

----------------------------------------------------------------------------
(* The chart components.  Prices are integers; the fields of a scale are   *)
(* in hundredths (minPrice = 150 stands for 1.50).                         *)

Min(S) == CHOOSE x \in S : \A y \in S : x <= y

Max(S) == CHOOSE x \in S : \A y \in S : x >= y

\* array.slice(-n)
LastN(seq, n) ==
  IF Len(seq) <= n THEN seq ELSE SubSeq(seq, Len(seq) - n + 1, Len(seq))

\* array[i], zero-based, is an element (not undefined)
Defined(seq, i) == i \in 0..(Len(seq) - 1)

Range(seq) == {seq[i] : i \in 1..Len(seq)}

\* padding = range * 0.1 (CandlestickChart, overlay variant), range * 0.05
\* (EnhancedCandlestickChart), in percent
CandlestickPaddingPct == 10

EnhancedPaddingPct == 5

OverlayPaddingPct == 10

\* data.slice(-100), data.slice(-30), data.slice(-50)
CandlestickVisible == 100

EnhancedVisible == 30

OverlayVisible == 50

DefaultScale == [minPrice |-> 0, maxPrice |-> 100 * 100, priceRange |-> 100 * 100]

\* forecasts.filter(f => f.confidence_lower).map(f => f.confidence_lower!)
TruthyBounds(fs, field) ==
  {fs[i][field].v : i \in {j \in 1..Len(fs) : Truthy(fs[j][field])}}

PaddedScale(allPrices, pct) ==
  LET min == Min(allPrices)
      max == Max(allPrices)
      range == max - min
      padding == range * pct
  IN [minPrice |-> 100 * min - padding,
      maxPrice |-> 100 * max + padding,
      priceRange |-> 100 * range + padding * 2]

\* CandlestickChart with the empty-data guard weakened: the scale is taken
\* from the forecasts when there are some.
CandlestickScale_FromForecasts(d, fs) ==
  IF Len(d) = 0 /\ Len(fs) = 0 THEN DefaultScale
  ELSE PaddedScale({d[i].low : i \in 1..Len(d)} \cup {d[i].high : i \in 1..Len(d)}
                   \cup {fs[i].predicted_price : i \in 1..Len(fs)},
                   CandlestickPaddingPct)

\* CandlestickChart, the scale useMemo
CandlestickScale(d, fs) ==
  IF Len(d) = 0 THEN DefaultScale
  ELSE PaddedScale({d[i].low : i \in 1..Len(d)} \cup {d[i].high : i \in 1..Len(d)}
                   \cup {fs[i].predicted_price : i \in 1..Len(fs)}
                   \cup TruthyBounds(fs, "confidence_lower")
                   \cup TruthyBounds(fs, "confidence_upper"),
                   CandlestickPaddingPct)

\* EnhancedCandlestickChart, the scale useMemo.  Every price of the model is
\* a finite number, so the isNaN / isFinite filter keeps them all.
EnhancedScale(d, fs) ==
  IF Len(d) = 0 THEN DefaultScale
  ELSE LET visibleData == LastN(d, EnhancedVisible)
           allPrices ==
             UNION {{visibleData[i].low, visibleData[i].high,
                     visibleData[i].close, visibleData[i].open} :
                    i \in 1..Len(visibleData)}
             \cup {fs[i].predicted_price : i \in 1..Len(fs)}
             \cup TruthyBounds(fs, "confidence_lower")
             \cup TruthyBounds(fs, "confidence_upper")
       IN IF allPrices = {} THEN DefaultScale
          ELSE PaddedScale(allPrices, EnhancedPaddingPct)

\* EnhancedCandlestickChart (error-overlay variant), the scale of its useMemo
OverlayScale(d, fs) ==
  IF Len(d) = 0 THEN DefaultScale
  ELSE PaddedScale({d[i].low : i \in 1..Len(d)} \cup {d[i].high : i \in 1..Len(d)}
                   \cup {fs[i].predicted_price : i \in 1..Len(fs)}
                   \cup TruthyBounds(fs, "confidence_lower")
                   \cup TruthyBounds(fs, "confidence_upper"),
                   OverlayPaddingPct)

\* visibleForecasts with the middle taken at floor((n - 1) / 2)
VisibleForecasts_LowerMiddle(fs) ==
  IF Len(fs) <= 3 THEN fs
  ELSE <<fs[1], fs[((Len(fs) - 1) \div 2) + 1], fs[Len(fs)]>>

\* visibleForecasts: all of them up to three, else first, middle and last
VisibleForecasts(fs) ==
  IF Len(fs) <= 3 THEN fs
  ELSE <<fs[1], fs[(Len(fs) \div 2) + 1], fs[Len(fs)]>>

\* The x-axis labels of CandlestickChart and of the overlay variant:
\* [0, floor(n/2), n-1].map(i => { if (i >= n) return null; ...
\* visibleData[i].timestamp ... }) reads a property of undefined when the
\* index that passes the test holds no element.
AxisLabelsThrow(visibleData) ==
  LET n == Len(visibleData)
  IN \E i \in {0, n \div 2, n - 1} : ~(i >= n) /\ ~Defined(visibleData, i)

\* The forecast path starts at visibleData[visibleData.length - 1].close.
LastPointThrows(visibleData) == ~Defined(visibleData, Len(visibleData) - 1)

\* Whether rendering CandlestickChart throws a TypeError.
CandlestickThrows(d, fs) ==
  LET visibleData == LastN(d, CandlestickVisible)
  IN \/ Len(fs) > 0 /\ LastPointThrows(visibleData)
     \/ AxisLabelsThrow(visibleData)

\* Whether rendering EnhancedCandlestickChart throws a TypeError: the date
\* labels are guarded by visibleData.length === 0, the timeline separator
\* and the forecast line are not.
EnhancedThrows(d, fs) ==
  LET visibleData == IF Len(d) = 0 THEN <<>> ELSE LastN(d, EnhancedVisible)
      n == Len(visibleData)
  IN \/ n # 0 /\ \E i \in {0, n \div 2, n - 1} : ~Defined(visibleData, i)
     \/ Len(fs) > 0 /\ LastPointThrows(visibleData)
     \/ Len(VisibleForecasts(fs)) > 0 /\ LastPointThrows(visibleData)

\* Whether rendering the overlay variant throws a TypeError.
OverlayThrows(d, fs) ==
  LET visibleData == LastN(d, OverlayVisible)
  IN \/ Len(fs) > 0 /\ LastPointThrows(visibleData)
     \/ AxisLabelsThrow(visibleData)

(* What a render lays out. *)

\* the candle colours: '#10b981' (green, up) and '#ef4444' (red, down)
UpColour == "#10b981"

DownColour == "#ef4444"

\* isGreen = candle.close > candle.open: a flat candle is red
CandleColour_FlatIsDown(candle) ==
  IF candle.close > candle.open THEN UpColour ELSE DownColour

\* const isGreen = candle.close >= candle.open;
\* const color = isGreen ? '#10b981' : '#ef4444';
CandleColour(candle) ==
  IF candle.close >= candle.open THEN UpColour ELSE DownColour

CandleColours(visibleData) ==
  [i \in 1..Len(visibleData) |-> CandleColour(visibleData[i])]

\* {forecast.confidence_lower && forecast.confidence_upper && (<line ... />)}
BandDrawn(forecast) ==
  Truthy(forecast.confidence_lower) /\ Truthy(forecast.confidence_upper)

\* forecasts.map(...) of CandlestickChart and of the overlay variant: a
\* marker for each forecast, with its confidence band or without
MarkersWithBands(fs) ==
  [i \in 1..Len(fs) |-> [forecast |-> fs[i], band |-> BandDrawn(fs[i])]]

\* visibleForecasts.map(...) of EnhancedCandlestickChart: a circle for each
\* visible forecast, and no band
MarkersOnly(fs) ==
  [i \in 1..Len(fs) |-> [forecast |-> fs[i], band |-> FALSE]]

\* (end - start) / start * 100, a JavaScript number
ChangePercent(start, end) ==
  IF start # 0 THEN Quotient((end - start) * 100 * (IF start < 0 THEN -1 ELSE 1),
                             Abs(start))
  ELSE IF end - start = 0 THEN NotANumber
       ELSE Infinite(IF end - start > 0 THEN 1 ELSE -1)

\* the stats cards of EnhancedCandlestickChart, shown when there is a
\* visible forecast
StatsCards(visibleForecasts, fs) ==
  IF Len(visibleForecasts) = 0 THEN Null
  ELSE LET start == visibleForecasts[1].predicted_price
           end == visibleForecasts[Len(visibleForecasts)].predicted_price
       IN Obj([startPrice |-> start, endPrice |-> end,
               change |-> ChangePercent(start, end),
               shown |-> Len(visibleForecasts), total |-> Len(fs)])

CandlestickLayout(d, fs) ==
  [candles |-> CandleColours(LastN(d, CandlestickVisible)),
   markers |-> MarkersWithBands(fs),
   stats |-> Null]

EnhancedLayout(d, fs) ==
  [candles |-> CandleColours(IF Len(d) = 0 THEN <<>> ELSE LastN(d, EnhancedVisible)),
   markers |-> MarkersOnly(VisibleForecasts(fs)),
   stats |-> StatsCards(VisibleForecasts(fs), fs)]

OverlayLayout(d, fs) ==
  [candles |-> CandleColours(LastN(d, OverlayVisible)),
   markers |-> MarkersWithBands(fs),
   stats |-> Null]

(* The props the charts are rendered with. *)

PriceValues == {1, 2}

\* OHLC points as a price feed gives them: low <= open, close <= high.
\* The series is ordered by time: the i-th point carries timestamp i, or
\* every point carries the same timestamp.
Candles ==
  {[open |-> o, high |-> h, low |-> l, close |-> c] :
     o \in PriceValues, h \in PriceValues, l \in PriceValues, c \in PriceValues}

ValidCandles == {k \in Candles : k.low <= k.open /\ k.low <= k.close
                                 /\ k.open <= k.high /\ k.close <= k.high}

WithTimestamps(ks) ==
  [i \in 1..Len(ks) |->
     [timestamp |-> i, open |-> ks[i].open, high |-> ks[i].high,
      low |-> ks[i].low, close |-> ks[i].close]]

\* the same points, all of one instant
AtOneInstant(ks) ==
  [i \in 1..Len(ks) |->
     [timestamp |-> 1, open |-> ks[i].open, high |-> ks[i].high,
      low |-> ks[i].low, close |-> ks[i].close]]

HistoricalSeries ==
  {WithTimestamps(ks) : ks \in SeqsUpTo(ValidCandles, MaxData)}
  \cup {AtOneInstant(ks) : ks \in SeqsUpTo(ValidCandles, MaxData)}

ForecastPoints ==
  {[predicted_price |-> p, confidence_lower |-> lo, confidence_upper |-> hi] :
     p \in {1, 3}, lo \in {Null, Num(0), Num(1)}, hi \in {Null, Num(3)}}

WithTargets(fs, start) ==
  [i \in 1..Len(fs) |->
     [target_timestamp |-> start + i, predicted_price |-> fs[i].predicted_price,
      confidence_lower |-> fs[i].confidence_lower,
      confidence_upper |-> fs[i].confidence_upper]]

ForecastLists == {WithTargets(fs, MaxData + 1) : fs \in SeqsUpTo(ForecastPoints, MaxForecasts)}

ChartInit ==
  /\ ClientIdle
  /\ MonitoringIdle
  /\ AppIdle
  /\ RenderIdle
  /\ PortfolioIdle
  /\ component = "none"
  /\ data \in HistoricalSeries
  /\ forecasts \in ForecastLists
  /\ scale = [minPrice |-> 0, maxPrice |-> 0, priceRange |-> 0]
  /\ rendered = "none"
  /\ layout = NoLayout

RenderCandlestickChart ==
  /\ component = "none"
  /\ component' = "CandlestickChart"
  /\ scale' = CandlestickScale(data, forecasts)
  /\ rendered' = IF CandlestickThrows(data, forecasts) THEN "TypeError" ELSE "ok"
  /\ layout' = IF CandlestickThrows(data, forecasts) THEN NoLayout
               ELSE CandlestickLayout(data, forecasts)
  /\ UNCHANGED <<data, forecasts, clientVars, monVars, appVars, renderVars, portfolioVars>>

RenderEnhancedCandlestickChart ==
  /\ component = "none"
  /\ component' = "EnhancedCandlestickChart"
  /\ scale' = EnhancedScale(data, forecasts)
  /\ rendered' = IF EnhancedThrows(data, forecasts) THEN "TypeError" ELSE "ok"
  /\ layout' = IF EnhancedThrows(data, forecasts) THEN NoLayout
               ELSE EnhancedLayout(data, forecasts)
  /\ UNCHANGED <<data, forecasts, clientVars, monVars, appVars, renderVars, portfolioVars>>

RenderOverlayChart ==
  /\ component = "none"
  /\ component' = "EnhancedCandlestickChart (error overlay)"
  /\ scale' = OverlayScale(data, forecasts)
  /\ rendered' = IF OverlayThrows(data, forecasts) THEN "TypeError" ELSE "ok"
  /\ layout' = IF OverlayThrows(data, forecasts) THEN NoLayout
               ELSE OverlayLayout(data, forecasts)
  /\ UNCHANGED <<data, forecasts, clientVars, monVars, appVars, renderVars, portfolioVars>>

ChartNext ==
  \/ RenderCandlestickChart
  \/ RenderEnhancedCandlestickChart
  \/ RenderOverlayChart

SpecChart == ChartInit /\ [][ChartNext]_vars

----------------------------------------------------------------------------
(* Claims about the chart scale.                                           *)

\* C3: for every non-empty historical series and any forecast list, the
\* scale has minPrice <= open, close, low, high <= maxPrice for every
\* historical point, and priceRange > 0 -- also when all prices are equal.
C3_ScaleCoversHistory ==
  (component # "none" /\ Len(data) > 0) =>
    /\ \A i \in 1..Len(data) :
         \A p \in {data[i].open, data[i].close, data[i].low, data[i].high} :
           scale.minPrice <= 100 * p /\ 100 * p <= scale.maxPrice
    /\ scale.priceRange > 0

\* C9: for an empty historical array, with any forecast list, every chart
\* component's scale is minPrice = 0, maxPrice = 100, priceRange = 100.
C9_EmptyHistoryDefaultScale ==
  (component # "none" /\ Len(data) = 0) =>
    /\ scale.minPrice = 0
    /\ scale.maxPrice = 100 * 100
    /\ scale.priceRange = 100 * 100

C9_Witness ==
  /\ component = "CandlestickChart"
  /\ Len(data) = 0
  /\ Len(forecasts) > 0
  /\ scale = DefaultScale

\* C10: rendering a chart component with an empty historical array raises
\* no exception, for any forecast list.
C10_EmptyHistoryRenders ==
  (component # "none" /\ Len(data) = 0) => rendered = "ok"

----------------------------------------------------------------------------
(* MonitoringDashboard.                                                    *)

\* Object.keys(x) throws a TypeError on null and undefined.
ObjectKeysThrows(x) == x.t \in {"null", "undefined"}

\* x.length throws a TypeError on null and undefined.
LengthThrows(x) == x.t \in {"null", "undefined"}

BackendUnavailable ==
  Str("Backend services are unavailable. Please ensure the Flask server is running on port 5000.")

FailedToLoad ==
  Str("Failed to load monitoring data. Please check if the backend is running on http://localhost:5000")

FailedToResolve == Str("Failed to resolve alert")

\* result.status === 'fulfilled' ? result.value : dflt
ValueOr(result, dflt) == IF result.status = "fulfilled" THEN result.value ELSE dflt

\* loadMonitoringData after the allSettled join, with something other than
\* allSettled's tolerance: any rejected fetch blanks the four slices.
LoadContinuation_AllOrNothing(perfR, errsR, alertR, metricsR, errorNow) ==
  IF \E r \in {perfR, errsR, alertR, metricsR} : r.status = "rejected"
  THEN [performanceData |-> EmptyObject, predictionErrors |-> Arr(<<>>),
        alerts |-> Arr(<<>>), metricsHistory |-> Arr(<<>>),
        error |-> FailedToLoad, promise |-> "fulfilled"]
  ELSE [performanceData |-> Or(perfR.value, EmptyObject),
        predictionErrors |-> Or(errsR.value, Arr(<<>>)),
        alerts |-> Or(alertR.value, Arr(<<>>)),
        metricsHistory |-> Or(metricsR.value, Arr(<<>>)),
        error |-> errorNow, promise |-> "fulfilled"]

\* loadMonitoringData from the allSettled join to its end: the values the
\* setters leave in the four slices and in error, and how the promise of
\* loadMonitoringData settles.  The console.log of line 85 reads
\* Object.keys(performance) and the three lengths; a TypeError there is
\* caught by the catch block, which blanks the four slices.
LoadContinuation(perfR, errsR, alertR, metricsR, errorNow) ==
  LET performance == ValueOr(perfR, EmptyObject)
      errors == ValueOr(errsR, Arr(<<>>))
      alertData == ValueOr(alertR, Arr(<<>>))
      metrics == ValueOr(metricsR, Arr(<<>>))
      threw == \/ ObjectKeysThrows(performance)
               \/ LengthThrows(errors)
               \/ LengthThrows(alertData)
               \/ LengthThrows(metrics)
      allFailed == /\ perfR.status = "rejected"
                   /\ errsR.status = "rejected"
                   /\ alertR.status = "rejected"
  IN IF threw
     THEN [performanceData |-> EmptyObject, predictionErrors |-> Arr(<<>>),
           alerts |-> Arr(<<>>), metricsHistory |-> Arr(<<>>),
           error |-> FailedToLoad, promise |-> "fulfilled"]
     ELSE [performanceData |-> Or(performance, EmptyObject),
           predictionErrors |-> Or(errors, Arr(<<>>)),
           alerts |-> Or(alertData, Arr(<<>>)),
           metricsHistory |-> Or(metrics, Arr(<<>>)),
           error |-> IF allFailed THEN BackendUnavailable ELSE errorNow,
           promise |-> "fulfilled"]

\* alerts.filter(alert => alert.id !== alertId)
WithoutAlert(list, alertId) ==
  Arr(SelectSeq(list.v, LAMBDA a : a.v.id # alertId))

(* Equality of quotients, and the sums of the metrics. *)

RatEq(a, b) == a.t = "rational" /\ b.t = "rational" /\ a.n * b.d = b.n * a.d

RECURSIVE Sum(_)
\* reduce((sum, x) => sum + x, 0)
Sum(xs) == IF Len(xs) = 0 THEN 0 ELSE Sum(SubSeq(xs, 1, Len(xs) - 1)) + xs[Len(xs)]

RECURSIVE Product(_)
Product(xs) == IF Len(xs) = 0 THEN 1 ELSE Product(SubSeq(xs, 1, Len(xs) - 1)) * xs[Len(xs)]

\* every point carries a numeric error and actual
NumericPoints(list) ==
  \A i \in 1..Len(list.v) : IsNum(list.v[i].v.error) /\ IsNum(list.v[i].v.actual)

\* The common denominator of the ratios |error| / |actual|: the product of
\* the non-zero |actual|.
ActualsProduct(points) ==
  Product([i \in 1..Len(points) |->
             IF points[i].v.actual.v # 0 THEN Abs(points[i].v.actual.v) ELSE 1])

\* sum of |error| / |actual| over the points with actual !== 0, times
\* ActualsProduct
RatioSum(points) ==
  LET D == ActualsProduct(points)
  IN Sum([i \in 1..Len(points) |->
            IF points[i].v.actual.v # 0
            THEN Abs(points[i].v.error.v) * (D \div Abs(points[i].v.actual.v))
            ELSE 0])

\* calculateModelMetrics with mae taken over the signed errors
calculateModelMetrics_SignedMae(list) ==
  IF Len(list.v) = 0 THEN Null
  ELSE LET points == list.v
           n == Len(points)
       IN Obj([mae |-> Rat(Sum([i \in 1..n |-> points[i].v.error.v]), n),
               rmseSquared |-> Rat(Sum([i \in 1..n |-> points[i].v.error.v * points[i].v.error.v]), n),
               mape |-> Rat(RatioSum(points) * 100, ActualsProduct(points) * n)])

\* calculateModelMetrics: null for no errors; mae, rmse (as its square) and
\* mape as rationals, NaN when a point lacks a numeric error or actual.
calculateModelMetrics(list) ==
  IF Len(list.v) = 0 THEN Null
  ELSE IF ~NumericPoints(list) THEN Obj([mae |-> NaN, rmseSquared |-> NaN, mape |-> NaN])
  ELSE LET points == list.v
           n == Len(points)
       IN Obj([mae |-> Rat(Sum([i \in 1..n |-> Abs(points[i].v.error.v)]), n),
               rmseSquared |-> Rat(Sum([i \in 1..n |-> points[i].v.error.v * points[i].v.error.v]), n),
               mape |-> Rat(RatioSum(points) * 100, ActualsProduct(points) * n)])

(* What the monitoring endpoints answer. *)

\* two of the six options of the instrument select
MonitoringSymbols == {"AAPL", "GOOGL"}

\* two of the three options of the time-range select
TimeRanges == {"7d", "30d"}

PerformanceBodies == {Null, Obj([keys |-> {"arima", "lstm"}])}

\* {actual: 0, error: 5} and {actual: 100, error: 10}; the first names its
\* values actual_price / predicted_price (a plain actual: 0 reads as absent)
ZeroActualPoint == RawErrorPoint(Num(5), Undefined, Undefined, Num(0), Num(-5))

HundredActualPoint == RawErrorPoint(Num(10), Num(100), Num(90), Undefined, Undefined)

MonitoringErrorBodies ==
  {Arr(<<HundredActualPoint>>), Arr(<<ZeroActualPoint, HundredActualPoint>>)}

Alert(id) == Obj([id |-> id, is_resolved |-> FALSE])

AlertBodies == {Arr(<<Alert("a1"), Alert("a2")>>)}

MetricsBodies == {Arr(<<OpaqueItem>>)}

FetchFails == [net |-> "error", ok |-> FALSE, body |-> Invalid]

HttpFails == [net |-> "ok", ok |-> FALSE, body |-> Null]

Ok(body) == [net |-> "ok", ok |-> TRUE, body |-> body]

\* What the four endpoints answer one load: each fails (by the network or by
\* its status) or succeeds with one of its bodies.
PerformanceAnswers == {FetchFails} \cup {Ok(b) : b \in PerformanceBodies}

ErrorAnswers == {HttpFails} \cup {Ok(b) : b \in MonitoringErrorBodies}

AlertAnswers == {HttpFails} \cup {Ok(b) : b \in AlertBodies}

MetricsAnswers == {FetchFails} \cup {Ok(b) : b \in MetricsBodies}

\* fetch rejected (the endpoint is unreachable) or answered with a
\* non-success status
EndpointFailed(res) == res.net = "error" \/ ~res.ok

\* the endpoints of a load that failed
FailedEndpoints(perfRes, errsRes, alertRes, metricsRes) ==
  {e \in {"performance", "errors", "alerts", "metrics"} :
     EndpointFailed(CASE e = "performance" -> perfRes
                      [] e = "errors" -> errsRes
                      [] e = "alerts" -> alertRes
                      [] e = "metrics" -> metricsRes)}

MonitoringInit ==
  /\ ClientIdle
  /\ ChartIdle
  /\ AppIdle
  /\ RenderIdle
  /\ PortfolioIdle
  /\ performanceData = EmptyObject
  /\ predictionErrors = Arr(<<>>)
  /\ alerts = Arr(<<>>)
  /\ metricsHistory = Arr(<<>>)
  /\ selectedSymbol = "AAPL"
  /\ timeRange = "30d"
  /\ resolving = {}
  /\ lastLoad = NoResults
  /\ resolvesStarted = 0
  \* the effect of the first render has called loadMonitoringData
  /\ loading = TRUE
  /\ error = Null
  /\ monLoad = [active |-> TRUE, symbol |-> "AAPL"]
  /\ loadsStarted = 1

\* loadMonitoringData up to its await: setLoading(true), setError(null) and
\* the four fetches for the selected symbol.
StartLoad(symbol) ==
  /\ loadsStarted < MaxLoads
  /\ loadsStarted' = loadsStarted + 1
  /\ loading' = TRUE
  /\ error' = Null
  /\ monLoad' = [active |-> TRUE, symbol |-> symbol]
  /\ lastLoad' = NoResults

\* the controls rendered beside the spinner as well
ControlsRendered_WhileLoading == TRUE

\* The controls exist only in the render that is not the loading spinner.
ControlsRendered == ~loading

\* <select> of the instrument: setSelectedSymbol, then the effect on
\* [selectedSymbol, timeRange] calls loadMonitoringData.
SelectSymbol(symbol) ==
  /\ ControlsRendered
  /\ symbol # selectedSymbol
  /\ selectedSymbol' = symbol
  /\ StartLoad(symbol)
  /\ UNCHANGED <<monSlices, timeRange, resolving, resolvesStarted>>
  /\ UNCHANGED <<clientVars, chartVars, appVars, renderVars, portfolioVars>>

SelectTimeRange(range) ==
  /\ ControlsRendered
  /\ range # timeRange
  /\ timeRange' = range
  /\ StartLoad(selectedSymbol)
  /\ UNCHANGED <<monSlices, selectedSymbol, resolving, resolvesStarted>>
  /\ UNCHANGED <<clientVars, chartVars, appVars, renderVars, portfolioVars>>

\* The Refresh button, and Check Again of the no-data panel.
ClickRefresh ==
  /\ ControlsRendered
  /\ StartLoad(selectedSymbol)
  /\ UNCHANGED <<monSlices, selectedSymbol, timeRange, resolving, resolvesStarted>>
  /\ UNCHANGED <<clientVars, chartVars, appVars, renderVars, portfolioVars>>

\* setLoading(false) as the last statement of the try block
LoadingAfter_OnlyInTry(after) == after.error = FailedToLoad

\* loading once loadMonitoringData has run to its end: the finally block
\* calls setLoading(false) after the try and after the catch block.
LoadingAfter(after) == FALSE

\* The four fetches of the load in flight have settled: the rest of
\* loadMonitoringData runs.
LoadSettles ==
  /\ monLoad.active
  /\ \E perfRes \in PerformanceAnswers, errsRes \in ErrorAnswers,
        alertRes \in AlertAnswers, metricsRes \in MetricsAnswers :
       LET perfR == getModelPerformance(perfRes)
           errsR == getPredictionErrors(monLoad.symbol, errsRes)
           alertR == getPerformanceAlerts(alertRes)
           metricsR == getMetricsHistory(metricsRes)
           after == LoadContinuation(perfR, errsR, alertR, metricsR, error)
       IN /\ performanceData' = after.performanceData
          /\ predictionErrors' = after.predictionErrors
          /\ alerts' = after.alerts
          /\ metricsHistory' = after.metricsHistory
          /\ error' = after.error
          /\ lastLoad' = [performance |-> perfR, errors |-> errsR, alerts |-> alertR,
                          metrics |-> metricsR, promise |-> after.promise,
                          failed |-> FailedEndpoints(perfRes, errsRes, alertRes, metricsRes)]
          /\ loading' = LoadingAfter(after)
  /\ monLoad' = NoLoad
  /\ UNCHANGED <<selectedSymbol, timeRange, resolving, loadsStarted, resolvesStarted>>
  /\ UNCHANGED <<clientVars, chartVars, appVars, renderVars, portfolioVars>>

\* The Resolve button of an unresolved alert: handleResolveAlert up to its
\* await.  The handler keeps the alerts of the render it was created in.
ClickResolve(alertId) ==
  /\ ControlsRendered
  /\ resolvesStarted < MaxResolves
  /\ \E i \in 1..Len(alerts.v) : alerts.v[i].v.id = alertId /\ ~alerts.v[i].v.is_resolved
  /\ resolvesStarted' = resolvesStarted + 1
  /\ resolving' = resolving \cup
       {[id |-> resolvesStarted + 1, alertId |-> alertId, alerts |-> alerts]}
  /\ UNCHANGED <<monSlices, selectedSymbol, loading, timeRange, error,
                 monLoad, lastLoad, loadsStarted>>
  /\ UNCHANGED <<clientVars, chartVars, appVars, renderVars, portfolioVars>>

\* resolveAlert settles: the rest of handleResolveAlert.
ResolveSettles(r) ==
  /\ r \in resolving
  /\ resolving' = resolving \ {r}
  /\ \E res \in AnswersOver({OpaqueObject}) :
       IF resolveAlert(res).status = "fulfilled"
       THEN /\ alerts' = WithoutAlert(r.alerts, r.alertId)
            /\ UNCHANGED error
       ELSE /\ error' = FailedToResolve
            /\ UNCHANGED alerts
  /\ UNCHANGED <<performanceData, predictionErrors, metricsHistory, selectedSymbol,
                 loading, timeRange, monLoad, lastLoad, loadsStarted, resolvesStarted>>
  /\ UNCHANGED <<clientVars, chartVars, appVars, renderVars, portfolioVars>>

MonitoringNext ==
  \/ \E symbol \in MonitoringSymbols : SelectSymbol(symbol)
  \/ \E range \in TimeRanges : SelectTimeRange(range)
  \/ ClickRefresh
  \/ LoadSettles
  \/ \E alertId \in {"a1", "a2"} : ClickResolve(alertId)
  \/ \E r \in resolving : ResolveSettles(r)

SpecMonitoring == MonitoringInit /\ [][MonitoringNext]_vars

----------------------------------------------------------------------------
(* Claims about MonitoringDashboard.                                       *)

\* C1: whatever the success or failure of the four fetches, once
\* loadMonitoringData completes each slice whose fetch succeeded holds that
\* fetch's payload, each slice whose fetch failed holds its empty default
\* ({} for performance, [] for the others), and loadMonitoringData throws
\* nothing.  (A performance payload of null is taken as held by {}.)
C1_LoadKeepsWhatSucceeded ==
  [][(monLoad.active /\ ~monLoad'.active) =>
       /\ performanceData' \in {ValueOr(lastLoad'.performance, EmptyObject), EmptyObject}
       /\ predictionErrors' = ValueOr(lastLoad'.errors, Arr(<<>>))
       /\ alerts' = ValueOr(lastLoad'.alerts, Arr(<<>>))
       /\ metricsHistory' = ValueOr(lastLoad'.metrics, Arr(<<>>))
       /\ lastLoad'.promise = "fulfilled"]_vars

\* the mean of |error| / |actual| * 100 over the points with actual != 0
MapeOverNonZeroActuals(list) ==
  Rat(RatioSum(list.v) * 100,
      ActualsProduct(list.v) * Cardinality({i \in 1..Len(list.v) : list.v[i].v.actual.v # 0}))

IsClaimExample(list) ==
  /\ Len(list.v) = 2
  /\ list.v[1].v.actual = Num(0) /\ list.v[1].v.error = Num(5)
  /\ list.v[2].v.actual = Num(100) /\ list.v[2].v.error = Num(10)

\* C2: calculateModelMetrics computes mape as the mean of |error| / |actual|
\* times 100 over the points with actual != 0 only (they count neither in
\* the sum nor in the number of points), so for
\* [{actual: 0, error: 5}, {actual: 100, error: 10}] mape is 10.
C2_MapeSkipsZeroActuals ==
  (Len(predictionErrors.v) > 0 /\ NumericPoints(predictionErrors)
     /\ \E i \in 1..Len(predictionErrors.v) : predictionErrors.v[i].v.actual.v # 0) =>
    /\ RatEq(calculateModelMetrics(predictionErrors).v.mape,
             MapeOverNonZeroActuals(predictionErrors))
    /\ IsClaimExample(predictionErrors) =>
         RatEq(calculateModelMetrics(predictionErrors).v.mape, Rat(10, 1))

----------------------------------------------------------------------------
(* App (the forecasting page).                                             *)

\* the mock instruments and models of loadInitialData's catch block
MockInstruments ==
  <<"AAPL", "GOOGL", "MSFT", "TSLA", "BTC-USD", "ETH-USD", "EURUSD=X">>

MockModels == <<"1", "2">>

\* Array.from({ length: 50 }) of loadHistoricalData's catch block
MockHistoryLength == 50

\* historicalData.slice(-15) and slice(-10) of loadPredictionErrors
MockErrorsWindow == 15

FallbackErrorsWindow == 10

\* useState(24) of selectedHorizon
DefaultHorizon == 24

\* the setTimeout delays of the forecasts effect and of handleGenerateForecast
EffectReloadDelay == 1000

ForecastReloadDelay == 1500

\* the instruments the user clicks in InstrumentSelector
UserPicks == {"AAPL", "GOOGL"}

\* What started a request or set a timer: the mount, the n-th instrument
\* selection or the n-th Generate Forecast click, and the delay of the timer
\* the request came through (0 when it came through none).
Trigger(by, n, delay) == [by |-> by, n |-> n, delay |-> delay]

\* A request in flight: what started it, the load function that awaits it and
\* what its closure captured (the selected instrument's symbol and
\* historicalData of the render that started it).
Request(trigger, kind, symbol, history) ==
  [trigger |-> trigger, kind |-> kind, symbol |-> symbol, history |-> history]

\* Promise.all([fetchInstruments(), fetchModels()]) of loadInitialData
InitialRequest == Request(Trigger("mount", 0, 0), "initial", NoSelection, NoList)

\* A setTimeout callback not yet run: () => loadPredictionErrors() with the
\* closure of the render that set it.
Timer(trigger, symbol, history) ==
  [trigger |-> trigger, symbol |-> symbol, history |-> history]

\* In the order the timers were set, the i-th is due before the j-th: set
\* earlier with no longer a delay, or set by the same handler run with a
\* shorter delay.
DueBefore(ts, i, j) ==
  \/ i < j /\ ts[i].trigger.delay <= ts[j].trigger.delay
  \/ /\ ts[i].trigger.by = ts[j].trigger.by
     /\ ts[i].trigger.n = ts[j].trigger.n
     /\ ts[i].trigger.delay < ts[j].trigger.delay

Without(ts, j) == [i \in 1..(Len(ts) - 1) |-> IF i < j THEN ts[i] ELSE ts[i + 1]]

\* the view state the completion handler of a request writes
Writes(kind) ==
  CASE kind = "initial" -> {"instruments", "models", "selectedInstrument",
                            "selectedModel", "loading"}
    [] kind = "historical" -> {"historicalData"}
    [] kind = "errors" -> {"predictionErrors", "loadingErrors"}
    [] kind = "performance" -> {"modelPerformance"}
    [] kind = "forecast" -> {"forecasts", "generatingForecast"}

\* The effect of [selectedInstrument]: loadHistoricalData,
\* loadPredictionErrors and loadModelPerformance, each up to its await.
InstrumentEffect(trigger, symbol, history) ==
  IF symbol = NoSelection THEN {}
  ELSE {Request(trigger, kind, symbol, history) :
          kind \in {"historical", "errors", "performance"}}

\* The effect of [forecasts, selectedInstrument]: a 1000 ms timer when an
\* instrument is selected and forecasts is not empty.
ForecastsEffect(by, n, symbol, fcs, history) ==
  IF symbol # NoSelection /\ fcs.length > 0
  THEN <<Timer(Trigger(by, n, EffectReloadDelay), symbol, history)>>
  ELSE <<>>

StringsOf(arr) == [i \in 1..Len(arr.v) |-> arr.v[i].v]

\* loadInitialData from the await on: what the setters leave.  Promise.all
\* rejects when either fetch does; modelsData.length of a null body throws;
\* both end in the catch block and its mock data.
InitialDataResult(instR, modelR) ==
  IF \/ instR.status = "rejected"
     \/ modelR.status = "rejected"
     \/ LengthThrows(modelR.value)
  THEN [instruments |-> MockInstruments, models |-> MockModels,
        selectedInstrument |-> "AAPL", selectedModel |-> "1"]
  ELSE LET is == StringsOf(instR.value)
           ms == StringsOf(modelR.value)
       IN [instruments |-> is, models |-> ms,
           selectedInstrument |-> IF Len(is) > 0 THEN is[1] ELSE NoSelection,
           selectedModel |-> IF Len(ms) > 0 THEN ms[1] ELSE NoSelection]

\* loadHistoricalData from the await on: what setHistoricalData is given.
\* now and selected are the slice and the selection at that moment.
HistoricalResult_DropStale(r, out, now, selected) ==
  IF r.symbol # selected THEN now
  ELSE IF out.status = "fulfilled"
       THEN ListOf("api", r.symbol, Len(out.value.v))
       ELSE ListOf("mock", r.symbol, MockHistoryLength)

HistoricalResult(r, out, now, selected) ==
  IF out.status = "fulfilled"
  THEN ListOf("api", r.symbol, Len(out.value.v))
  ELSE ListOf("mock", r.symbol, MockHistoryLength)

\* loadPredictionErrors from the await on: what setPredictionErrors is given
ErrorsResult(r, out) ==
  IF out.status = "fulfilled"
  THEN IF Truthy(out.value) /\ Len(out.value.v) > 0
       THEN ListOf("api", r.symbol, Len(out.value.v))
       ELSE ListOf("mock", r.symbol,
                   IF r.history.length < MockErrorsWindow
                   THEN r.history.length ELSE MockErrorsWindow)
  ELSE ListOf("mock", r.symbol,
              IF r.history.length < FallbackErrorsWindow
              THEN r.history.length ELSE FallbackErrorsWindow)

\* loadModelPerformance from the await on
PerformanceResult(r, out) ==
  IF out.status = "fulfilled"
  THEN [source |-> "api", symbol |-> r.symbol]
  ELSE [source |-> "mock", symbol |-> r.symbol]

\* handleGenerateForecast with a catch block that sets no forecasts
ForecastResult_NothingOnFailure(r, out) ==
  IF out.status = "fulfilled"
  THEN ListOf("api", r.symbol, Len(out.value.v))
  ELSE NoList

\* handleGenerateForecast from the await on: what setForecasts is given
ForecastResult(r, out) ==
  IF out.status = "fulfilled"
  THEN ListOf("api", r.symbol, Len(out.value.v))
  ELSE ListOf("mock", r.symbol, DefaultHorizon)

StrsOf(seq) == Arr([i \in 1..Len(seq) |-> Str(seq[i])])

\* the backend lists the instruments and models the mock data names
InstrumentAnswers == {FetchFails, Ok(Arr(<<>>)), Ok(StrsOf(MockInstruments))}

ModelAnswers == {HttpFails, Ok(Null), Ok(Arr(<<>>)), Ok(StrsOf(MockModels))}

HistoricalAnswers == {FetchFails, Ok(Arr(<<OpaqueItem>>))}

AppErrorAnswers == {HttpFails, Ok(Arr(<<HundredActualPoint>>))}

AppPerformanceAnswers == {FetchFails, Ok(OpaqueObject)}

ForecastAnswers == {HttpFails, Ok(Arr(<<>>)), Ok(Arr(<<OpaqueItem>>))}

\* a load function that retried its failed fetch
AfterResponse_RetryOnFailure(rs, r, out) ==
  IF out.status = "rejected"
  THEN (rs \ {r}) \cup
         {Request(Trigger("retry", r.trigger.n, r.trigger.delay), r.kind, r.symbol, r.history)}
  ELSE rs \ {r}

\* The requests in flight once r has settled with out and its load function
\* has run to its end: neither the try, the catch nor the finally block of
\* a load function calls a fetch function.
AfterResponse(rs, r, out) == rs \ {r}

\* App is mounted: the spinner shows and loadInitialData awaits its fetches.
AppInit ==
  /\ ClientIdle
  /\ ChartIdle
  /\ MonitoringIdle
  /\ RenderIdle
  /\ PortfolioIdle
  /\ AppSlicesInitial
  /\ appLoading = TRUE
  /\ requests = {InitialRequest}
  /\ timers = <<>>
  /\ requestsStarted = 0
  /\ selections = 0
  /\ forecastClicks = 0

\* the page's controls exist once the spinner of `if (loading)` is gone
AppControlsRendered == ~appLoading

\* loadInitialData from the await to its end, and the effects of the render
\* that follows.
InitialDataSettles ==
  /\ InitialRequest \in requests
  /\ \E instAns \in InstrumentAnswers, modelAns \in ModelAnswers :
       LET result == InitialDataResult(fetchInstruments(instAns),
                                       fetchModels(modelAns))
           started == InstrumentEffect(Trigger("mount", 0, 0),
                                       result.selectedInstrument, historicalData)
       IN /\ instruments' = result.instruments
          /\ models' = result.models
          /\ selectedInstrument' = result.selectedInstrument
          /\ selectedModel' = result.selectedModel
          /\ appLoading' = FALSE
          /\ requests' = (requests \ {InitialRequest}) \cup started
          /\ requestsStarted' = requestsStarted + Cardinality(started)
          /\ loadingErrors' = (started # {})
  /\ UNCHANGED <<historicalData, appForecasts, appPredictionErrors,
                 modelPerformance, generatingForecast, timers, selections,
                 forecastClicks>>
  /\ UNCHANGED <<clientVars, chartVars, monVars, renderVars, portfolioVars>>

\* InstrumentSelector's onSelect={setSelectedInstrument} with another
\* instrument, and the two effects of the render that follows.  Nothing is
\* done about the requests in flight.
SelectInstrument(symbol) ==
  /\ AppControlsRendered
  /\ selections < MaxSelections
  /\ requestsStarted + 3 <= MaxRequests
  /\ requestsStarted' = requestsStarted + 3
  /\ \E i \in 1..Len(instruments) : instruments[i] = symbol
  /\ symbol # selectedInstrument
  /\ selectedInstrument' = symbol
  /\ requests' = requests \cup
       InstrumentEffect(Trigger("select", selections + 1, 0), symbol, historicalData)
  /\ loadingErrors' = TRUE
  /\ timers' = timers \o ForecastsEffect("select", selections + 1, symbol,
                                         appForecasts, historicalData)
  /\ selections' = selections + 1
  /\ UNCHANGED <<instruments, models, selectedModel, historicalData,
                 appForecasts, appPredictionErrors, modelPerformance,
                 appLoading, generatingForecast, forecastClicks>>
  /\ UNCHANGED <<clientVars, chartVars, monVars, renderVars, portfolioVars>>

\* loadHistoricalData from the await to its end
HistoricalSettles(r) ==
  /\ r \in requests /\ r.kind = "historical"
  /\ \E ans \in HistoricalAnswers :
       LET out == fetchHistoricalData(ans)
       IN /\ historicalData' = HistoricalResult(r, out, historicalData,
                                                selectedInstrument)
          /\ requests' = AfterResponse(requests, r, out)
  /\ UNCHANGED requestsStarted
  /\ UNCHANGED <<instruments, models, selectedInstrument, selectedModel,
                 appForecasts, appPredictionErrors, modelPerformance,
                 appLoading, generatingForecast, loadingErrors, timers,
                 selections, forecastClicks>>
  /\ UNCHANGED <<clientVars, chartVars, monVars, renderVars, portfolioVars>>

\* loadPredictionErrors from the await to its end
ErrorsSettle(r) ==
  /\ r \in requests /\ r.kind = "errors"
  /\ \E ans \in AppErrorAnswers :
       LET out == getPredictionErrors(r.symbol, ans)
       IN /\ appPredictionErrors' = ErrorsResult(r, out)
          /\ requests' = AfterResponse(requests, r, out)
  /\ loadingErrors' = FALSE
  /\ UNCHANGED requestsStarted
  /\ UNCHANGED <<instruments, models, selectedInstrument, selectedModel,
                 historicalData, appForecasts, modelPerformance, appLoading,
                 generatingForecast, timers, selections, forecastClicks>>
  /\ UNCHANGED <<clientVars, chartVars, monVars, renderVars, portfolioVars>>

\* loadModelPerformance from the await to its end
PerformanceSettles(r) ==
  /\ r \in requests /\ r.kind = "performance"
  /\ \E ans \in AppPerformanceAnswers :
       LET out == getModelPerformance(ans)
       IN /\ modelPerformance' = PerformanceResult(r, out)
          /\ requests' = AfterResponse(requests, r, out)
  /\ UNCHANGED requestsStarted
  /\ UNCHANGED <<instruments, models, selectedInstrument, selectedModel,
                 historicalData, appForecasts, appPredictionErrors, appLoading,
                 generatingForecast, loadingErrors, timers, selections,
                 forecastClicks>>
  /\ UNCHANGED <<clientVars, chartVars, monVars, renderVars, portfolioVars>>

\* A click on Generate Forecast: handleGenerateForecast up to its await.
\* The button is disabled without an instrument or a model and while
\* generatingForecast; the handler returns at once on an empty history.
ClickGenerate ==
  /\ AppControlsRendered
  /\ forecastClicks < MaxForecastClicks
  /\ requestsStarted < MaxRequests
  /\ requestsStarted' = requestsStarted + 1
  /\ selectedInstrument # NoSelection /\ selectedModel # NoSelection
  /\ ~generatingForecast
  /\ historicalData.length # 0
  /\ generatingForecast' = TRUE
  /\ requests' = requests \cup
       {Request(Trigger("generate", forecastClicks + 1, 0), "forecast",
                selectedInstrument, historicalData)}
  /\ forecastClicks' = forecastClicks + 1
  /\ UNCHANGED <<instruments, models, selectedInstrument, selectedModel,
                 historicalData, appForecasts, appPredictionErrors,
                 modelPerformance, appLoading, loadingErrors, timers,
                 selections>>
  /\ UNCHANGED <<clientVars, chartVars, monVars, renderVars, portfolioVars>>

\* handleGenerateForecast from the await to its end (on success it sets the
\* 1500 ms timer), and the forecasts effect of the render that follows.
ForecastSettles(r) ==
  /\ r \in requests /\ r.kind = "forecast"
  /\ \E ans \in ForecastAnswers :
       LET out == generateForecast(ans)
           own == IF out.status = "fulfilled"
                  THEN <<Timer(Trigger("generate", r.trigger.n, ForecastReloadDelay),
                               r.symbol, r.history)>>
                  ELSE <<>>
           fcs == ForecastResult(r, out)
       IN /\ appForecasts' = fcs
          /\ timers' = timers \o own \o
               ForecastsEffect("generate", r.trigger.n, selectedInstrument,
                               fcs, historicalData)
          /\ requests' = AfterResponse(requests, r, out)
  /\ generatingForecast' = FALSE
  /\ UNCHANGED requestsStarted
  /\ UNCHANGED <<instruments, models, selectedInstrument, selectedModel,
                 historicalData, appPredictionErrors, modelPerformance,
                 appLoading, loadingErrors, selections, forecastClicks>>
  /\ UNCHANGED <<clientVars, chartVars, monVars, renderVars, portfolioVars>>

\* The j-th setTimeout callback runs: loadPredictionErrors up to its await,
\* with the closure of the render that set the timer.
TimerFires(j) ==
  /\ j \in 1..Len(timers)
  /\ requestsStarted < MaxRequests
  /\ requestsStarted' = requestsStarted + 1
  /\ \A i \in 1..Len(timers) : ~DueBefore(timers, i, j)
  /\ timers' = Without(timers, j)
  /\ loadingErrors' = TRUE
  /\ requests' = requests \cup
       {Request(timers[j].trigger, "errors", timers[j].symbol, timers[j].history)}
  /\ UNCHANGED <<instruments, models, selectedInstrument, selectedModel,
                 historicalData, appForecasts, appPredictionErrors,
                 modelPerformance, appLoading, generatingForecast,
                 selections, forecastClicks>>
  /\ UNCHANGED <<clientVars, chartVars, monVars, renderVars, portfolioVars>>

AppNext ==
  \/ InitialDataSettles
  \/ \E symbol \in UserPicks : SelectInstrument(symbol)
  \/ \E r \in requests : HistoricalSettles(r)
  \/ \E r \in requests : ErrorsSettle(r)
  \/ \E r \in requests : PerformanceSettles(r)
  \/ ClickGenerate
  \/ \E r \in requests : ForecastSettles(r)
  \/ \E j \in 1..Len(timers) : TimerFires(j)

SpecApp == AppInit /\ [][AppNext]_vars

----------------------------------------------------------------------------
(* Claims about App.                                                       *)

\* C7: a request of the instrument effect is neither cancelled nor its
\* response discarded when another instrument is selected meanwhile: a
\* request leaves the requests in flight only by its response being written
\* to its slice (historicalData, predictionErrors or modelPerformance then
\* hold the data of the request's instrument), whatever instrument is
\* selected by then, and the selection stays as it is.
C7_StaleResponseOverwrites ==
  [][\A r \in requests :
       (r.kind \in {"historical", "errors", "performance"} /\ r \notin requests') =>
         /\ r.kind = "historical" =>
              historicalData'.symbol = r.symbol /\ historicalData'.source # "initial"
         /\ r.kind = "errors" =>
              appPredictionErrors'.symbol = r.symbol /\ appPredictionErrors'.source # "initial"
         /\ r.kind = "performance" =>
              modelPerformance'.symbol = r.symbol /\ modelPerformance'.source # "initial"
         /\ selectedInstrument' = selectedInstrument]_vars

\* GOOGL was selected while AAPL's history was loading, both responses have
\* arrived, AAPL's last: the page shows AAPL's history under GOOGL.
C7_Witness ==
  /\ selections = 1
  /\ selectedInstrument = "GOOGL"
  /\ \A r \in requests : r.kind # "historical"
  /\ historicalData = ListOf("api", "AAPL", 1)

\* C8: no two requests in flight at the same time have completion handlers
\* that write the same piece of view state.
C8_InFlightWritesDisjoint ==
  \A r1, r2 \in requests :
    r1 # r2 => Writes(r1.kind) \cap Writes(r2.kind) = {}

----------------------------------------------------------------------------
(* The chart coordinates.                                                  *)

\* innerHeight = chartHeight - padding.top - padding.bottom
InnerHeight(comp) ==
  IF comp = "CandlestickChart" THEN 400 - 20 - 40 ELSE 500 - 20 - 60

\* getY: innerHeight - ((price - minPrice) / priceRange) * innerHeight, for
\* a scale in hundredths.  A division by priceRange = 0 gives NaN for 0 / 0
\* and an infinity otherwise.
getY(sc, innerHeight, price) ==
  LET above == 100 * price - sc.minPrice
  IN IF sc.priceRange # 0
     THEN Quotient(innerHeight * (sc.priceRange - above), sc.priceRange)
     ELSE IF above = 0 THEN NotANumber
          ELSE IF above > 0 THEN Infinite(-1) ELSE Infinite(1)

\* the prices a y coordinate is asked for
PlottedPrices == 0..3

\* C11: for the scale a chart component computed, getY is strictly
\* decreasing in the price: p < q implies getY(p) > getY(q).
C11_GetYStrictlyDecreasing ==
  component # "none" =>
    \A p, q \in PlottedPrices :
      p < q => Greater(getY(scale, InnerHeight(component), p),
                       getY(scale, InnerHeight(component), q))

\* EnhancedCandlestickChart: visibleData of the scale useMemo
EnhancedVisibleData(d) == IF Len(d) = 0 THEN <<>> ELSE LastN(d, EnhancedVisible)

\* EnhancedCandlestickChart: dateRange of the scale useMemo, the least and
\* the greatest timestamp of the visible history and of every forecast.
\* With no history both ends are new Date(), and no point is laid out.
EnhancedDateRange(d, fs) ==
  LET allDates == {EnhancedVisibleData(d)[i].timestamp : i \in 1..Len(EnhancedVisibleData(d))}
                  \cup {fs[i].target_timestamp : i \in 1..Len(fs)}
  IN IF Len(d) = 0 THEN [min |-> 0, max |-> 0]
     ELSE [min |-> Min(allDates), max |-> Max(allDates)]

\* padding.left of EnhancedCandlestickChart
EnhancedPaddingLeft == 60

\* innerWidth = Math.max(800, visibleData.length * 25) - padding.left - padding.right
EnhancedInnerWidth(d) ==
  LET n == Len(EnhancedVisibleData(d))
  IN (IF n * 25 > 800 THEN n * 25 ELSE 800) - EnhancedPaddingLeft - 60

\* getX without its totalTimeRange === 0 return: 0 / 0 is NaN
getX_Unguarded(dateRange, innerWidth, timestamp) ==
  LET totalTimeRange == dateRange.max - dateRange.min
      timePosition == timestamp - dateRange.min
  IN IF totalTimeRange = 0
     THEN IF timePosition = 0 THEN NotANumber
          ELSE Infinite(IF timePosition > 0 THEN 1 ELSE -1)
     ELSE Quotient(EnhancedPaddingLeft * totalTimeRange + timePosition * innerWidth,
                   totalTimeRange)

\* getX of EnhancedCandlestickChart
getX(dateRange, innerWidth, timestamp) ==
  LET totalTimeRange == dateRange.max - dateRange.min
      timePosition == timestamp - dateRange.min
  IN IF totalTimeRange = 0 THEN Quotient(EnhancedPaddingLeft, 1)
     ELSE Quotient(EnhancedPaddingLeft * totalTimeRange + timePosition * innerWidth,
                   totalTimeRange)

\* the timestamps of the points EnhancedCandlestickChart lays out
LaidOutTimestamps(d, fs) ==
  {EnhancedVisibleData(d)[i].timestamp : i \in 1..Len(EnhancedVisibleData(d))}
  \cup {fs[i].target_timestamp : i \in 1..Len(fs)}

\* C12: over the visible historical and the forecast points of a rendered
\* EnhancedCandlestickChart, getX is a finite number that does not decrease
\* as the timestamp grows, and when the points share one timestamp
\* (dateRange.max = dateRange.min) each of them is at padding.left.
C12_GetXNonDecreasing ==
  (component = "EnhancedCandlestickChart" /\ rendered = "ok") =>
    LET dateRange == EnhancedDateRange(data, forecasts)
        innerWidth == EnhancedInnerWidth(data)
        points == LaidOutTimestamps(data, forecasts)
    IN /\ \A s, t \in points :
            /\ IsFinite(getX(dateRange, innerWidth, t))
            /\ s <= t => ~Greater(getX(dateRange, innerWidth, s),
                                   getX(dateRange, innerWidth, t))
       /\ dateRange.max = dateRange.min =>
            \A t \in points :
              getX(dateRange, innerWidth, t) = Quotient(EnhancedPaddingLeft, 1)

\* a chart of two historical points of one instant
C12_Witness ==
  /\ component = "EnhancedCandlestickChart"
  /\ rendered = "ok"
  /\ Len(data) = 2
  /\ Len(forecasts) = 0
  /\ EnhancedDateRange(data, forecasts).max = EnhancedDateRange(data, forecasts).min

----------------------------------------------------------------------------
(* MonitoringDashboard: the statistics a render computes from the          *)
(* prediction errors it holds.                                             *)

\* longest list of prediction errors the statistics are computed from
MaxErrors == 2

\* calculateErrorStatistics on a non-empty list: the count, the mean and the
\* greatest |error|, and the standard deviation of |error| (as its square:
\* sum((|e| - avg)^2) / n = (n * sum(e^2) - sum(|e|)^2) / n^2).
ErrorStatisticsOf(list) ==
  IF ~NumericPoints(list)
  THEN Obj([totalErrors |-> Len(list.v), avgError |-> NaN, maxError |-> NaN,
            stdDevSquared |-> NaN])
  ELSE LET points == list.v
           n == Len(points)
           sumAbs == Sum([i \in 1..n |-> Abs(points[i].v.error.v)])
           sumSquares == Sum([i \in 1..n |-> points[i].v.error.v * points[i].v.error.v])
       IN Obj([totalErrors |-> n,
               avgError |-> Rat(sumAbs, n),
               maxError |-> Max({Abs(points[i].v.error.v) : i \in 1..n}),
               stdDevSquared |-> Rat(n * sumSquares - sumAbs * sumAbs, n * n)])

\* calculateErrorStatistics answering an empty list with zeros
calculateErrorStatistics_ZerosWhenEmpty(list) ==
  IF Len(list.v) = 0
  THEN Obj([totalErrors |-> 0, avgError |-> Rat(0, 1), maxError |-> 0,
            stdDevSquared |-> Rat(0, 1)])
  ELSE ErrorStatisticsOf(list)

\* calculateErrorStatistics: null for no errors
calculateErrorStatistics(list) ==
  IF Len(list.v) = 0 THEN Null ELSE ErrorStatisticsOf(list)

\* A prediction error as getPredictionErrors hands it over.
ErrorPoint(err, act) ==
  Obj([timestamp |-> Str("2024-01-01"), predicted |-> Num(act - err),
       actual |-> Num(act), error |-> Num(err), symbol |-> Str("AAPL"),
       model_type |-> Str("arima")])

ErrorPoints == {ErrorPoint(err, act) : err \in {-10, 0, 5, 10}, act \in {0, 100}}

ErrorLists == {Arr(ps) : ps \in SeqsUpTo(ErrorPoints, MaxErrors)}

\* The dashboard holds a list of prediction errors and is about to render.
StatisticsInit ==
  /\ ClientIdle
  /\ ChartIdle
  /\ AppIdle
  /\ RenderIdle
  /\ PortfolioIdle
  /\ performanceData = EmptyObject
  /\ predictionErrors \in ErrorLists
  /\ alerts = Arr(<<>>)
  /\ metricsHistory = Arr(<<>>)
  /\ selectedSymbol = "AAPL"
  /\ loading = FALSE
  /\ timeRange = "30d"
  /\ error = Null
  /\ monLoad = NoLoad
  /\ resolving = {}
  /\ lastLoad = NoResults
  /\ loadsStarted = 0
  /\ resolvesStarted = 0

\* const errorStats = calculateErrorStatistics();
\* const modelMetrics = calculateModelMetrics();
RenderStatistics ==
  /\ errorStats = Undefined
  /\ errorStats' = calculateErrorStatistics(predictionErrors)
  /\ modelMetrics' = calculateModelMetrics(predictionErrors)
  /\ UNCHANGED <<accuracyChart, clientVars, chartVars, monVars, appVars, portfolioVars>>

\* predictionErrors.slice(-20)
AccuracyVisible == 20

\* getX of renderPredictionAccuracyChart:
\* (index / (chartData.length - 1)) * innerWidth, index zero-based
AccuracyGetX(n, innerWidth, index) ==
  IF n - 1 # 0 THEN Quotient(index * innerWidth, n - 1)
  ELSE IF index = 0 THEN NotANumber ELSE Infinite(1)

\* renderPredictionAccuracyChart: the placeholder for no errors; else, for
\* each of the last 20 points, the x of its index and the y of its actual
\* and of its predicted price.
renderPredictionAccuracyChart(list) ==
  IF Len(list.v) = 0 THEN Str("No Prediction Data")
  ELSE LET chartData == LastN(list.v, AccuracyVisible)
           n == Len(chartData)
           innerWidth == 800 - 60 - 20
           innerHeight == 300 - 20 - 40
           allPrices == {chartData[i].v.predicted.v : i \in 1..n}
                        \cup {chartData[i].v.actual.v : i \in 1..n}
           minPrice == Min(allPrices)
           maxPrice == Max(allPrices)
           sc == [minPrice |-> 100 * minPrice, maxPrice |-> 100 * maxPrice,
                  priceRange |-> 100 * (maxPrice - minPrice)]
       IN [t |-> "chart",
           v |-> [i \in 1..n |->
                    [x |-> AccuracyGetX(n, innerWidth, i - 1),
                     actualY |-> getY(sc, innerHeight, chartData[i].v.actual.v),
                     predictedY |-> getY(sc, innerHeight, chartData[i].v.predicted.v)]]]

\* {renderPredictionAccuracyChart()} in the dashboard's JSX
RenderPredictionAccuracyChart ==
  /\ accuracyChart = Undefined
  /\ accuracyChart' = renderPredictionAccuracyChart(predictionErrors)
  /\ UNCHANGED <<errorStats, modelMetrics, clientVars, chartVars, monVars, appVars, portfolioVars>>

StatisticsNext ==
  \/ RenderStatistics
  \/ RenderPredictionAccuracyChart

SpecStatistics == StatisticsInit /\ [][StatisticsNext]_vars

----------------------------------------------------------------------------
(* Claims about the statistics.                                            *)

C14_NullWhenEmpty ==
  errorStats # Undefined =>
    IF Len(predictionErrors.v) = 0
    THEN errorStats = Null /\ modelMetrics = Null
    ELSE errorStats.t = "object" /\ modelMetrics.t = "object"

\* the statistics of an empty list were computed
C14_Witness ==
  /\ Len(predictionErrors.v) = 0
  /\ errorStats = Null
  /\ modelMetrics = Null

\* C19: for every non-empty list of prediction errors, the x and the y of
\* every point renderPredictionAccuracyChart plots is a finite number.
C19_AccuracyChartFinite ==
  (accuracyChart # Undefined /\ Len(predictionErrors.v) > 0) =>
    /\ accuracyChart.t = "chart"
    /\ \A i \in 1..Len(accuracyChart.v) :
         /\ IsFinite(accuracyChart.v[i].x)
         /\ IsFinite(accuracyChart.v[i].actualY)
         /\ IsFinite(accuracyChart.v[i].predictedY)

----------------------------------------------------------------------------
(* Claims about what the charts lay out.                                   *)

\* the historical points a chart component lays out
VisibleData(comp, d) ==
  CASE comp = "CandlestickChart" -> LastN(d, CandlestickVisible)
    [] comp = "EnhancedCandlestickChart" -> EnhancedVisibleData(d)
    [] OTHER -> LastN(d, OverlayVisible)

\* C15: every candle a chart component lays out is coloured up (green) if
\* and only if close >= open and down (red) otherwise; a candle with
\* close = open is up.
C15_CandleColour ==
  rendered = "ok" =>
    LET visibleData == VisibleData(component, data)
    IN /\ Len(layout.candles) = Len(visibleData)
       /\ \A i \in 1..Len(visibleData) :
            /\ layout.candles[i] \in {UpColour, DownColour}
            /\ layout.candles[i] = UpColour <=> visibleData[i].close >= visibleData[i].open

\* a flat candle laid out green next to a falling one laid out red
C15_Witness ==
  /\ rendered = "ok"
  /\ Len(data) = 2
  /\ data[1].close = data[1].open /\ layout.candles[1] = UpColour
  /\ data[2].close < data[2].open /\ layout.candles[2] = DownColour

\* C17: for every forecast point laid out, the confidence band is drawn
\* exactly when confidence_lower and confidence_upper are both present (not
\* null), a bound of 0 included.
C17_BandWhenBothPresent ==
  rendered = "ok" =>
    \A i \in 1..Len(layout.markers) :
      layout.markers[i].band <=>
        /\ layout.markers[i].forecast.confidence_lower # Null
        /\ layout.markers[i].forecast.confidence_upper # Null

----------------------------------------------------------------------------
(* EnhancedCandlestickChart given longer forecast lists.                   *)

\* longest forecast list EnhancedCandlestickChart is given here
MaxMarkerForecasts == 5

\* forecasts without confidence bounds
PlainForecasts ==
  {[predicted_price |-> p, confidence_lower |-> Null, confidence_upper |-> Null] :
     p \in {1, 3}}

LongForecastLists ==
  {WithTargets(fs, 1) : fs \in SeqsUpTo(PlainForecasts, MaxMarkerForecasts)}

\* one historical point and a forecast list, before the render
MarkersInit ==
  /\ ClientIdle
  /\ MonitoringIdle
  /\ AppIdle
  /\ RenderIdle
  /\ PortfolioIdle
  /\ component = "none"
  /\ data \in {WithTimestamps(<<k>>) : k \in ValidCandles}
  /\ forecasts \in LongForecastLists
  /\ scale = [minPrice |-> 0, maxPrice |-> 0, priceRange |-> 0]
  /\ rendered = "none"
  /\ layout = NoLayout

MarkersNext == RenderEnhancedCandlestickChart

SpecForecastMarkers == MarkersInit /\ [][MarkersNext]_vars

\* C16: EnhancedCandlestickChart shows, of a forecast list of length n > 3,
\* exactly the points at indices 0, floor(n / 2) and n - 1, in that order,
\* and every point when n <= 3; the start price, end price and change of
\* the stats cards are those of the first and the last point of the whole
\* list.
C16_ForecastMarkers ==
  (component = "EnhancedCandlestickChart" /\ rendered = "ok") =>
    LET n == Len(forecasts)
        shown == [i \in 1..Len(layout.markers) |-> layout.markers[i].forecast]
    IN /\ n > 3 => shown = <<forecasts[1], forecasts[(n \div 2) + 1], forecasts[n]>>
       /\ n <= 3 => shown = forecasts
       /\ n > 0 =>
            /\ layout.stats # Null
            /\ layout.stats.v.startPrice = forecasts[1].predicted_price
            /\ layout.stats.v.endPrice = forecasts[n].predicted_price
            /\ layout.stats.v.change =
                 ChangePercent(forecasts[1].predicted_price, forecasts[n].predicted_price)

\* four forecasts rendered as three markers, the middle one being the third
C16_Witness ==
  /\ component = "EnhancedCandlestickChart"
  /\ rendered = "ok"
  /\ Len(forecasts) = 4
  /\ Len(layout.markers) = 3
  /\ layout.markers[2].forecast = forecasts[3]
  /\ forecasts[1].predicted_price # forecasts[4].predicted_price

----------------------------------------------------------------------------
(* App.loadPredictionErrors, point by point.                               *)

\* longest price history App holds here
MaxHistory == 2

\* a HistoricalPrice, as far as loadPredictionErrors reads it
HistoricalPoint(close) == [timestamp |-> Str("2024-01-01"), close |-> close]

Closes == {150, 151, 152}

Histories == SeqsUpTo({HistoricalPoint(c) : c \in Closes}, MaxHistory)

\* whole values of (Math.random() - 0.5) * 15 and of (Math.random() - 0.5) * 12
DrawnErrors == {-5, 0, 5}

\* the object both map callbacks of loadPredictionErrors return
MockErrorPoint(idPrefix, index, d, errorValue, symbol, modelType) ==
  Obj([id         |-> <<idPrefix, index>>,
       timestamp  |-> d.timestamp,
       error      |-> Num(errorValue),
       predicted  |-> Num(d.close + errorValue),
       actual     |-> Num(d.close),
       symbol     |-> Str(symbol),
       model_type |-> Str(modelType)])

\* historicalData.slice(-n).map(...) with the drawn error values
MockErrors(idPrefix, window, history, errorValues, symbol, modelType) ==
  LET visible == LastN(history, window)
  IN [i \in 1..Len(visible) |->
        MockErrorPoint(idPrefix, i - 1, visible[i], errorValues[i], symbol, modelType)]

\* what loadPredictionErrors hands to setPredictionErrors, given the outcome
\* of getPredictionErrors
PlacedPredictionErrors(out, history, errorValues, symbol) ==
  IF out.status = "fulfilled"
  THEN IF Truthy(out.value) /\ Len(out.value.v) > 0
       THEN out.value.v
       ELSE MockErrors("mock-error", MockErrorsWindow, history, errorValues, symbol, "arima")
  ELSE MockErrors("fallback-error", FallbackErrorsWindow, history, errorValues, symbol, "lstm")

\* the service's answers: failure, no points, one point that carries its
\* own error
PointAnswers ==
  {HttpFails, Ok(Arr(<<>>)),
   Ok(Arr(<<RawErrorPoint(Num(2), Num(5), Num(3), Undefined, Undefined)>>))}

\* App with an instrument selected and its history loaded, inside
\* loadPredictionErrors at the await
ErrorPointsInit ==
  /\ ClientIdle
  /\ ChartIdle
  /\ MonitoringIdle
  /\ RenderIdle
  /\ PortfolioIdle
  /\ instruments = MockInstruments
  /\ models = MockModels
  /\ selectedInstrument = "AAPL"
  /\ selectedModel = "1"
  /\ historicalData \in Histories
  /\ appForecasts = <<>>
  /\ appPredictionErrors = <<>>
  /\ modelPerformance = NoPerformance
  /\ appLoading = FALSE
  /\ generatingForecast = FALSE
  /\ loadingErrors = TRUE
  /\ requests = {}
  /\ timers = <<>>
  /\ requestsStarted = 0
  /\ selections = 0
  /\ forecastClicks = 0

\* loadPredictionErrors from the await to its end
PredictionErrorsSettle ==
  /\ loadingErrors
  /\ \E ans \in PointAnswers :
     \E errorValues \in [1..Len(historicalData) -> DrawnErrors] :
       appPredictionErrors' =
         PlacedPredictionErrors(getPredictionErrors(selectedInstrument, ans),
                                historicalData, errorValues, selectedInstrument)
  /\ loadingErrors' = FALSE
  /\ UNCHANGED <<instruments, models, selectedInstrument, selectedModel,
                 historicalData, appForecasts, modelPerformance, appLoading,
                 generatingForecast, requests, timers, selections,
                 forecastClicks, requestsStarted>>
  /\ UNCHANGED <<clientVars, chartVars, monVars, renderVars, portfolioVars>>

ErrorPointsNext == PredictionErrorsSettle

SpecErrorPoints == ErrorPointsInit /\ [][ErrorPointsNext]_vars

\* C18: every point App places into predictionErrors, the points it makes
\* up itself included, has error = actual - predicted.
C18_ErrorIsActualMinusPredicted ==
  ~loadingErrors =>
    \A i \in 1..Len(appPredictionErrors) :
      appPredictionErrors[i].v.error =
        Minus(appPredictionErrors[i].v.actual, appPredictionErrors[i].v.predicted)

----------------------------------------------------------------------------
(* Claims about what issues a request.                                     *)

\* the requests a step puts in flight
Issued == requests' \ requests

\* C20: App issues a request only in a step of a trigger: the mount (the
\* instrument effect that follows loadInitialData), a selection change, a
\* Generate Forecast click, or the run of a timer that a selection change
\* or a forecast generation set.  The response of a request, failed or not,
\* puts no request to the same endpoint in flight; every load invocation
\* issues each of its endpoint requests exactly once.
C20_NoAutomaticRetry ==
  [][/\ \A r \in requests : r \notin requests' =>
          \A q \in Issued : q.kind # r.kind
     /\ Issued # {} =>
          \/ InitialRequest \in requests /\ InitialRequest \notin requests'
          \/ selections' = selections + 1
          \/ forecastClicks' = forecastClicks + 1
          \/ Len(timers') = Len(timers) - 1
     /\ \A q \in Issued : q.trigger.by \in {"mount", "select", "generate"}
     /\ \A q1, q2 \in Issued : q1.kind = q2.kind => q1 = q2
     /\ requestsStarted' = requestsStarted + Cardinality(Issued)]_vars

\* the history fetch of the mount has failed (the mock history shows), and
\* nothing is in flight or scheduled
C20_Witness ==
  /\ ~appLoading
  /\ selections = 0
  /\ forecastClicks = 0
  /\ historicalData = ListOf("mock", "AAPL", MockHistoryLength)
  /\ requests = {}
  /\ timers = <<>>
  /\ requestsStarted = 3

----------------------------------------------------------------------------
(* Claims about MonitoringDashboard's loads and alerts.                    *)

\* C21: when the model performance, the prediction errors and the alerts
\* endpoint have all failed (unreachable or a non-success status), the load
\* that completes leaves the 'Backend services are unavailable' message in
\* error.
C21_AllFailedSetsError ==
  [][(/\ monLoad.active
      /\ ~monLoad'.active
      /\ {"performance", "errors", "alerts"} \subseteq lastLoad'.failed) =>
         error' = BackendUnavailable]_vars

\* the ids of the alerts a list holds
AlertIds(list) == {list.v[i].v.id : i \in 1..Len(list.v)}

\* C22: with no load since the mount's, when the request for alert b
\* settles and removes b, an alert a that was resolved while b's request
\* was in flight (a was in alerts when b was clicked and is not any more)
\* is not in alerts afterwards either.
C22_OverlappingResolvesBothRemoved ==
  [][\A r \in resolving :
       \A a \in AlertIds(r.alerts) :
         (/\ loadsStarted = 1
          /\ r \notin resolving'
          /\ a # r.alertId
          /\ a \notin AlertIds(alerts)
          /\ r.alertId \notin AlertIds(alerts')) =>
            a \notin AlertIds(alerts')]_vars

\* C23: handleResolveAlert, when its request settles, either (success)
\* removes from alerts exactly the alerts with the given id and leaves error
\* as it is, or (failure) leaves alerts as they are and sets error to
\* 'Failed to resolve alert'; either way performanceData, predictionErrors,
\* metricsHistory and selectedSymbol stay as they are.
C23_ResolveFrame ==
  [][\A r \in resolving :
       r \notin resolving' =>
         /\ \/ alerts' = WithoutAlert(alerts, r.alertId) /\ error' = error
            \/ alerts' = alerts /\ error' = FailedToResolve
         /\ UNCHANGED <<performanceData, predictionErrors, metricsHistory,
                        selectedSymbol>>]_vars

\* The loads of the dashboard (handleResolveAlert neither reads nor writes
\* loading), with every fetch settling eventually: a load in flight is not
\* left waiting for ever.
LoadsNext ==
  \/ \E symbol \in MonitoringSymbols : SelectSymbol(symbol)
  \/ \E range \in TimeRanges : SelectTimeRange(range)
  \/ ClickRefresh
  \/ LoadSettles

SpecLoadsLive == MonitoringInit /\ [][LoadsNext]_vars /\ WF_vars(LoadSettles)

\* C24: whenever loadMonitoringData has started (the spinner shows), loading
\* is false again later, whatever the four fetches answer.
C24_LoadingEnds == loading ~> ~loading

\* the second load of the dashboard is in flight
C24_Witness ==
  /\ loading
  /\ monLoad.active
  /\ loadsStarted = 2

\* C25: at most one loadMonitoringData is in flight at any time: a load
\* starts only when none is in flight and the spinner does not show, and
\* loading is true as long as a load is in flight.
C25_OneLoadInFlight ==
  [][/\ loadsStarted' # loadsStarted => ~monLoad.active /\ ~loading
     /\ monLoad'.active => loading']_vars

\* a load started from the rendered controls is in flight while the
\* request of a Resolve click is
C25_Witness ==
  /\ loadsStarted = 2
  /\ monLoad.active
  /\ loading
  /\ resolving # {}

----------------------------------------------------------------------------
(* Claims about App's flags.                                               *)

\* C26: loadingErrors is true exactly when a loadPredictionErrors request
\* is in flight, for every interleaving of the instrument effect's load and
\* the delayed reloads.
C26_LoadingErrorsWhileInFlight ==
  loadingErrors <=> \E r \in requests : r.kind = "errors"

----------------------------------------------------------------------------
(* PortfolioDashboard: the portfolio loads and the trade handlers.         *)

\* how many times a trade button is clicked
MaxTrades == 2

\* the portfolio and the performance of loadPortfolioData's catch block
MockPortfolio ==
  Obj([cash_balance |-> 10000, holdings |-> [s \in {"AAPL", "GOOGL"} |->
                                               IF s = "AAPL" THEN 10 ELSE 5]])

MockPerformance == Obj([cash_balance |-> 5000, current_value |-> 15000])

\* what the portfolio endpoints answer
PortfolioAnswers ==
  {FetchFails,
   Ok(Obj([cash_balance |-> 1000, holdings |-> [s \in {"AAPL"} |-> 1]]))}

PortfolioPerformanceAnswers ==
  {HttpFails,
   Ok(Obj([cash_balance |-> 0, current_value |-> 100])),
   Ok(Obj([cash_balance |-> 1000, current_value |-> 1100]))}

\* loadPortfolioData from the await of Promise.all on: what setPortfolio and
\* setPerformance are given
PortfolioLoadResult(portR, perfR) ==
  IF portR.status = "rejected" \/ perfR.status = "rejected"
  THEN [portfolio |-> MockPortfolio, performance |-> MockPerformance]
  ELSE [portfolio |-> portR.value, performance |-> perfR.value]

\* performance?.cash_balance || 0
CashBalance(perf) == IF perf = Null THEN 0 ELSE perf.v.cash_balance

\* performance?.current_value || 0
CurrentValue(perf) == IF perf = Null THEN 0 ELSE perf.v.current_value

\* portfolio?.holdings?.[symbol] || 0
Holdings(pf, symbol) ==
  IF pf = Null THEN 0
  ELSE IF symbol \in DOMAIN pf.v.holdings THEN pf.v.holdings[symbol] ELSE 0

\* a trading signal, as handleAutoTrade reads it
Signal(symbol, action, predictedPrice) ==
  [symbol |-> symbol, action |-> action, predictedPrice |-> predictedPrice]

\* generateTradingSignals: the signals of the latest forecast, with the
\* performance of the render whose effect runs it.  The confidence level
\* 1 - range / predicted_price is above 0.7 when 10 * range < 3 *
\* predicted_price (for a positive predicted_price).
generateTradingSignals(fs, instrument, perf, before) ==
  IF Len(fs) = 0 \/ instrument = NoSelection THEN before
  ELSE LET latest == fs[Len(fs)]
           bounded == Truthy(latest.confidence_lower) /\ Truthy(latest.confidence_upper)
           range == latest.confidence_upper.v - latest.confidence_lower.v
           confident == 10 * range < 3 * latest.predicted_price
           buy == IF bounded /\ confident
                     /\ latest.predicted_price > CurrentValue(perf)
                  THEN <<Signal(instrument, "BUY", latest.predicted_price)>>
                  ELSE <<>>
           sell == IF bounded /\ confident
                      /\ latest.predicted_price < CurrentValue(perf)
                   THEN <<Signal(instrument, "SELL", latest.predicted_price)>>
                   ELSE <<>>
       IN buy \o sell

\* Math.floor(maxInvestment / signal.predictedPrice) with maxInvestment =
\* cash * 0.1: a division by zero gives Infinity, or NaN for 0 / 0
BuyQuantity(cash, predictedPrice) ==
  IF predictedPrice = 0
  THEN IF cash = 0 THEN NotANumber
       ELSE IF cash > 0 THEN Infinite(1) ELSE Infinite(-1)
  ELSE IF predictedPrice > 0 THEN Rat(cash \div (10 * predictedPrice), 1)
  ELSE Rat((-cash) \div (10 * (-predictedPrice)), 1)

\* Math.min(currentHoldings, Math.floor(currentHoldings * 0.5))
SellQuantity(held) ==
  IF held < held \div 2 THEN Rat(held, 1) ELSE Rat(held \div 2, 1)

\* the quantity handleAutoTrade computes for a signal
AutoTradeQuantity(signal, pf, perf) ==
  IF signal.action = "BUY" THEN BuyQuantity(CashBalance(perf), signal.predictedPrice)
  ELSE IF signal.action = "SELL" THEN SellQuantity(Holdings(pf, signal.symbol))
  ELSE Rat(0, 1)

\* what the quantity input holds
TypedQuantities == {"", "5", "1.5"}

\* parseInt, on the strings the quantity input holds
ParseInt(str) ==
  CASE str = "5" -> Rat(5, 1)
    [] str = "1.5" -> Rat(1, 1)
    [] OTHER -> NotANumber

\* the forecasts prop: the bounds of a forecast lie 2 below and 2 above its
\* price, or are 0 or null
PortfolioForecasts ==
  {[predicted_price |-> p, confidence_lower |-> lo, confidence_upper |-> up] :
     p \in {50, 200}, lo \in {Null, Num(0), Num(48)}, up \in {Null, Num(52)}}

\* a handler run in flight: awaiting executeTrade ("trade") or the
\* loadPortfolioData that follows it ("reload")
TradeRun(id, by, stage, symbol, action, quantity) ==
  [id |-> id, by |-> by, stage |-> stage, symbol |-> symbol, action |-> action,
   quantity |-> quantity]

\* PortfolioDashboard is mounted: the spinner shows, the effect has called
\* loadPortfolioData and generateTradingSignals
PortfolioInit ==
  /\ ClientIdle
  /\ ChartIdle
  /\ MonitoringIdle
  /\ AppIdle
  /\ RenderIdle
  /\ portfolio = Null
  /\ portfolioPerformance = Null
  /\ portfolioLoading = TRUE
  /\ trading = FALSE
  /\ tradeSymbol = ""
  /\ tradeQuantity = ""
  /\ \E fs \in SeqsUpTo(PortfolioForecasts, 1), instrument \in {NoSelection, "AAPL"} :
       tradingSignals = generateTradingSignals(fs, instrument, Null, <<>>)
  /\ portfolioLoad = TRUE
  /\ tradeRuns = {}
  /\ lastTrade = NoTrade
  /\ tradesStarted = 0

\* the buttons and inputs exist once the spinner of `if (loading)` is gone
PortfolioControlsRendered == ~portfolioLoading

\* trade buttons that stay enabled during a trade
TradeButtonsEnabled_WhileTrading == PortfolioControlsRendered

\* disabled={trading} of the Auto, Buy More and Sell buttons, and the
\* first disjunct of disabled={trading || !tradeSymbol || !tradeQuantity}
TradeButtonsEnabled == PortfolioControlsRendered /\ ~trading

\* the effect's loadPortfolioData from the await to its end
PortfolioLoadSettles ==
  /\ portfolioLoad
  /\ \E portAns \in PortfolioAnswers, perfAns \in PortfolioPerformanceAnswers :
       LET result == PortfolioLoadResult(getPortfolio(portAns),
                                         getPortfolioPerformance(perfAns))
       IN /\ portfolio' = result.portfolio
          /\ portfolioPerformance' = result.performance
  /\ portfolioLoading' = FALSE
  /\ portfolioLoad' = FALSE
  /\ UNCHANGED <<trading, tradeSymbol, tradeQuantity, tradingSignals, tradeRuns,
                 lastTrade, tradesStarted>>
  /\ UNCHANGED <<clientVars, chartVars, monVars, appVars, renderVars>>

\* handleAutoTrade up to its await, or to its end when the quantity is not
\* above 0 (setTrading(true) and setTrading(false) then fall in one batch)
AutoTrade(signal) ==
  /\ tradesStarted < MaxTrades
  /\ tradesStarted' = tradesStarted + 1
  /\ LET quantity == AutoTradeQuantity(signal, portfolio, portfolioPerformance)
         issued == Greater(quantity, Rat(0, 1))
     IN /\ lastTrade' = [by |-> "auto", symbol |-> signal.symbol,
                         action |-> signal.action,
                         predictedPrice |-> signal.predictedPrice,
                         quantity |-> quantity, issued |-> issued]
        /\ trading' = issued
        /\ tradeRuns' =
             IF issued
             THEN tradeRuns \cup {TradeRun(tradesStarted + 1, "auto", "trade",
                                           signal.symbol, signal.action, quantity)}
             ELSE tradeRuns
  /\ UNCHANGED <<portfolio, portfolioPerformance, portfolioLoading, tradeSymbol,
                 tradeQuantity, tradingSignals, portfolioLoad>>
  /\ UNCHANGED <<clientVars, chartVars, monVars, appVars, renderVars>>

\* the Auto BUY / Auto SELL button of a trading signal
ClickAutoTrade(i) ==
  /\ TradeButtonsEnabled
  /\ i \in 1..Len(tradingSignals)
  /\ AutoTrade(tradingSignals[i])

\* the Buy More and Sell buttons of a holding: handleAutoTrade with a
\* signal whose predictedPrice is 0
ClickHolding(symbol, action) ==
  /\ TradeButtonsEnabled
  /\ portfolio # Null
  /\ symbol \in DOMAIN portfolio.v.holdings
  /\ AutoTrade(Signal(symbol, action, 0))

\* typing into the symbol and quantity inputs
TypeTrade(symbol, quantity) ==
  /\ PortfolioControlsRendered
  /\ <<symbol, quantity>> # <<tradeSymbol, tradeQuantity>>
  /\ tradeSymbol' = symbol
  /\ tradeQuantity' = quantity
  /\ UNCHANGED <<portfolio, portfolioPerformance, portfolioLoading, trading,
                 tradingSignals, portfolioLoad, tradeRuns, lastTrade, tradesStarted>>
  /\ UNCHANGED <<clientVars, chartVars, monVars, appVars, renderVars>>

\* the manual Buy / Sell buttons: handleManualTrade up to its await
ClickManualTrade(action) ==
  /\ TradeButtonsEnabled
  /\ tradeSymbol # "" /\ tradeQuantity # ""
  /\ tradesStarted < MaxTrades
  /\ tradesStarted' = tradesStarted + 1
  /\ trading' = TRUE
  /\ lastTrade' = [by |-> "manual", symbol |-> tradeSymbol, action |-> action,
                   predictedPrice |-> 0, quantity |-> ParseInt(tradeQuantity),
                   issued |-> TRUE]
  /\ tradeRuns' = tradeRuns \cup
       {TradeRun(tradesStarted + 1, "manual", "trade", tradeSymbol, action,
                 ParseInt(tradeQuantity))}
  /\ UNCHANGED <<portfolio, portfolioPerformance, portfolioLoading, tradeSymbol,
                 tradeQuantity, tradingSignals, portfolioLoad>>
  /\ UNCHANGED <<clientVars, chartVars, monVars, appVars, renderVars>>

\* executeTrade settles: on success the handler goes on to await
\* loadPortfolioData, on failure it alerts and runs its finally block
TradeSettles(run) ==
  /\ run \in tradeRuns /\ run.stage = "trade"
  /\ \E ans \in {HttpFails, Ok(OpaqueObject)} :
       IF executeTrade(ans).status = "fulfilled"
       THEN /\ tradeRuns' = (tradeRuns \ {run}) \cup
                 {TradeRun(run.id, run.by, "reload", run.symbol, run.action,
                           run.quantity)}
            /\ UNCHANGED trading
       ELSE /\ tradeRuns' = tradeRuns \ {run}
            /\ trading' = FALSE
  /\ UNCHANGED <<portfolio, portfolioPerformance, portfolioLoading, tradeSymbol,
                 tradeQuantity, tradingSignals, portfolioLoad, lastTrade,
                 tradesStarted>>
  /\ UNCHANGED <<clientVars, chartVars, monVars, appVars, renderVars>>

\* the loadPortfolioData of a trade handler settles: the rest of the
\* handler (the manual one clears its inputs) and its finally block
ReloadSettles(run) ==
  /\ run \in tradeRuns /\ run.stage = "reload"
  /\ \E portAns \in PortfolioAnswers, perfAns \in PortfolioPerformanceAnswers :
       LET result == PortfolioLoadResult(getPortfolio(portAns),
                                         getPortfolioPerformance(perfAns))
       IN /\ portfolio' = result.portfolio
          /\ portfolioPerformance' = result.performance
  /\ portfolioLoading' = FALSE
  /\ tradeSymbol' = IF run.by = "manual" THEN "" ELSE tradeSymbol
  /\ tradeQuantity' = IF run.by = "manual" THEN "" ELSE tradeQuantity
  /\ tradeRuns' = tradeRuns \ {run}
  /\ trading' = FALSE
  /\ UNCHANGED <<tradingSignals, portfolioLoad, lastTrade, tradesStarted>>
  /\ UNCHANGED <<clientVars, chartVars, monVars, appVars, renderVars>>

PortfolioNext ==
  \/ PortfolioLoadSettles
  \/ \E i \in 1..Len(tradingSignals) : ClickAutoTrade(i)
  \/ \E symbol \in {"AAPL", "GOOGL"}, action \in {"BUY", "SELL"} :
       ClickHolding(symbol, action)
  \/ \E symbol \in {"", "AAPL"}, quantity \in TypedQuantities :
       TypeTrade(symbol, quantity)
  \/ \E action \in {"buy", "sell"} : ClickManualTrade(action)
  \/ \E run \in tradeRuns : TradeSettles(run)
  \/ \E run \in tradeRuns : ReloadSettles(run)

SpecPortfolio == PortfolioInit /\ [][PortfolioNext]_vars

----------------------------------------------------------------------------
(* Claims about PortfolioDashboard.                                        *)

\* C27: at most one executeTrade request is in flight at any time; trading
\* is true exactly while a trade handler awaits its executeTrade or the
\* portfolio reload that follows it; a trade handler starts only while
\* trading is false.
C27_OneTradeInFlight ==
  [][/\ Cardinality(tradeRuns') <= 1
     /\ trading' <=> tradeRuns' # {}
     /\ tradesStarted' # tradesStarted => ~trading]_vars

\* the second trade has succeeded and its portfolio reload is awaited
C27_Witness ==
  /\ tradesStarted = 2
  /\ trading
  /\ \E run \in tradeRuns : run.stage = "reload" /\ run.id = 2

\* C28: when handleAutoTrade calls executeTrade, the quantity is a finite
\* positive integer; for BUY, quantity x predictedPrice is at most 10% of
\* the cash balance, for SELL the quantity is at most floor(50% of the
\* holdings of the symbol).
C28_AutoTradeQuantity ==
  [][(/\ tradesStarted' # tradesStarted
      /\ lastTrade'.by = "auto"
      /\ lastTrade'.issued) =>
        LET q == lastTrade'.quantity
        IN /\ IsFinite(q)
           /\ q.d = 1
           /\ q.n > 0
           /\ lastTrade'.action = "BUY" =>
                10 * q.n * lastTrade'.predictedPrice <= CashBalance(portfolioPerformance)
           /\ lastTrade'.action = "SELL" =>
                q.n <= Holdings(portfolio, lastTrade'.symbol) \div 2]_vars

----------------------------------------------------------------------------
(* Claims about App's forecast generation.                                 *)

\* the generateForecast requests in flight
ForecastsInFlight(rs) == {r \in rs : r.kind = "forecast"}

\* C29: generatingForecast is true exactly while a generateForecast request
\* is in flight, and at most one is; handleGenerateForecast starts one only
\* with an instrument and a model selected and a non-empty historicalData;
\* when the request settles generatingForecast is false and forecasts holds
\* the response (success) or selectedHorizon mock points (failure).
C29_GeneratingWhileInFlight ==
  [][/\ generatingForecast' <=> ForecastsInFlight(requests') # {}
     /\ Cardinality(ForecastsInFlight(requests')) <= 1
     /\ forecastClicks' # forecastClicks =>
          /\ selectedInstrument # NoSelection
          /\ selectedModel # NoSelection
          /\ historicalData.length # 0
          /\ ~generatingForecast
     /\ \A r \in ForecastsInFlight(requests) :
          r \notin requests' =>
            /\ ~generatingForecast'
            /\ appForecasts'.symbol = r.symbol
            /\ \/ appForecasts'.source = "api"
               \/ appForecasts' = ListOf("mock", r.symbol, DefaultHorizon)]_vars

\* the first generation failed (the mock forecasts show) and the second
\* request is in flight
C29_Witness ==
  /\ forecastClicks = 2
  /\ generatingForecast
  /\ ForecastsInFlight(requests) # {}
  /\ appForecasts = ListOf("mock", "AAPL", DefaultHorizon)

====
